---- MODULE Spec2Model ----
(***************************************************************************)
(* IntelliScaleSim: the scaling store and autoscaler engine                *)
(* (backend/app/services/autoscaler_service.py, api/routes_containers.py,  *)
(* api/routes_autoscaling.py, main.py) and the load-test engine            *)
(* (services/loadtest_service.py, api/routes_loadtest.py).                 *)
(*                                                                         *)
(* Rows of a table are a function from the ids of the rows to records.     *)
(* A null column is Null (ids, ports) or NoTime (timestamps).  Wall-clock  *)
(* time of the autoscaler is in seconds; time of a load test is in ticks   *)
(* of 1/10 s.                                                              *)
(***************************************************************************)
EXTENDS Integers, Sequences, FiniteSets, TLC

\* ---------------------------------------------------------------- bounds
MaxContainers == 2      \* rows ever inserted into containers
MaxPolicies == 1        \* rows ever inserted into scaling_policies
MaxRacePolicies == 2    \* policies created while create requests overlap
MaxEvents == 2          \* rows ever inserted into scaling_events
MaxTime == 90           \* the autoscaler clock stops here (seconds)
MaxReplicaInput == 2    \* min_replicas and max_replicas offered to the API

\* ------------------------------------------------------ program constants
Null == 0               \* a null id, port or foreign key
NoTime == -1            \* a null timestamp
TickPeriod == 30        \* asyncio.sleep(30) of the autoscaler loop
StartPort == 3000       \* find_available_port(db, start_port=3000)
MinCooldown == 60       \* cooldown_period: Field(ge=60)
MaxReplicasLimit == 8   \* Field(le=8) of min_replicas and max_replicas

Users == {1, 2}
\* users.role: user 1 is a student, user 2 a teacher
Role == [u \in Users |-> IF u = 1 THEN "student" ELSE "teacher"]

\* the users that deploy containers
Owners == {1}
\* what the container driver answers to a dockerhub deployment
DockerAnswers == {"ok"}
\* names a deploy request may carry: "web" and the literal "web-replica-1"
NameInputs == {<<"web">>, <<"web", "replica", 1>>}
\* ports a deploy request may carry (Null: allocate automatically)
PortInputs == {Null}
\* metric samples synthesized for a simulated container
\* (cpu in [3,15], memory in [10,30])
CpuSamples == {3, 7, 12}
MemSamples == {10, 25}
\* thresholds and periods a policy request may carry
UpCpuInputs == {10}
\* thresholds the decision is tried with: each equals one of the samples
DecideCpuThresholds == {7, 12}
DecideMemThresholds == {25}
UpMemInputs == {20}
DownCpuInputs == {5}
DownMemInputs == {15}
CooldownInputs == {MinCooldown}
ReplicaInputs == 1..MaxReplicaInput

VARIABLES
    containers,     \* table containers: id -> row
    policies,       \* table scaling_policies: id -> row
    events,         \* table scaling_events, in insertion order
    nextCid,        \* next primary key of containers
    nextPid,        \* next primary key of scaling_policies
    now,            \* wall clock of the autoscaler, seconds
    lastOp,         \* the last request or pass and its HTTP status
    evalLog         \* what the last evaluation pass logged, per policy

asVars == <<containers, policies, events, nextCid, nextPid, now, lastOp, evalLog>>

VARIABLES
    test,           \* the LoadTest object of the executing session
    committed,      \* the row of load_tests as last committed
    results,        \* the results dict of _run_test
    tnow,           \* the load-test clock, ticks
    main,           \* the task running execute_load_test
    reqs,           \* the send_request tasks, by request number + 1
    sampler,        \* the task running _collect_metrics
    metricRows,     \* table load_test_metrics of the test, in insertion order
    ltResp          \* the answers of DELETE /loadtest/{id} so far

ltVars == <<test, committed, results, tnow, main, reqs, sampler, metricRows, ltResp>>

\* a decision of the autoscaler taken on its own: the arguments handed to
\* should_scale_up and what it returned
VARIABLES
    decideIn,       \* [policy, metrics, current_replicas, t]
    decideOut       \* <<decision, reason>>, reason "not_called" before the call

\* a service method applied on its own to a store: the store and the
\* arguments it is applied to, and the store it leaves
VARIABLES
    applyIn,        \* [db, pid, metrics, t]
    applyOut,       \* [op, fault, db, log], op "none" before the call
    sessions,       \* the passes running at once on the store applyOut.db,
                    \* each on a session of its own
    inflight        \* the create-policy requests between their queries and
                    \* their commit

\* the other services of the process
VARIABLES
    raised,         \* the exception a task of the load test has ended with:
                    \* [task, at], task "none" while none has
    loops,          \* the perpetual background tasks and their clock:
                    \* [clock, task], task by name [pc, db, ticks, logged, wake]
    billing         \* the billing store and its callers: [input, rows, seed]

svcVars == <<raised, loops, billing>>

\* no task has raised
NoFault == [task |-> "none", at |-> "none"]

fnVars == <<decideIn, decideOut, applyIn, applyOut, sessions, inflight, svcVars>>

vars == <<asVars, ltVars, fnVars>>

\* ------------------------------------------------------------ the store
\* a database state handed through the service methods
Store(cs, ps, ev, nc) == [containers |-> cs, policies |-> ps, events |-> ev, nextCid |-> nc]

CurStore == Store(containers, policies, events, nextCid)

\* f with the row id removed
DropRow(f, id) == [k \in DOMAIN f \ {id} |-> f[k]]

\* f with the row id added or replaced
PutRow(f, id, row) == [k \in DOMAIN f \cup {id} |-> IF k = id THEN row ELSE f[k]]

Min(S) == CHOOSE x \in S : \A y \in S : x <= y

Max(S) == CHOOSE x \in S : \A y \in S : x >= y

\* find_available_port: the lowest port >= start_port that no row holds
find_available_port(cs, start_port) ==
    LET used == {cs[c].port : c \in DOMAIN cs} \ {Null}
    IN  Min({p \in start_port..(start_port + Cardinality(used)) : p \notin used})

\* ownership test of start / stop / delete: only a student is restricted
MayManage(u, row) == ~(Role[u] = "student" /\ row.user_id /= u)

\* ------------------------------------------------- AutoScalerService
\* get_current_replica_count: running rows whose parent is container_id,
\* plus the container itself when it is running
get_current_replica_count(cs, container_id) ==
    Cardinality({c \in DOMAIN cs : cs[c].parent_id = container_id /\ cs[c].status = "running"})
    + (IF container_id \in DOMAIN cs /\ cs[container_id].status = "running" THEN 1 ELSE 0)

\* the samples get_container_metrics can return for a container: None
\* (the empty set) for a missing row and for a row with a docker handle,
\* a synthesized dict for a simulated one
MetricSamples ==
    {[k \in {"cpu_percent", "memory_percent"} |-> IF k = "cpu_percent" THEN c ELSE m] :
        c \in CpuSamples, m \in MemSamples}

get_container_metrics(cs, container_id) ==
    IF container_id \notin DOMAIN cs THEN {}
    ELSE IF cs[container_id].container_id = Null
         THEN MetricSamples
         ELSE {}

\* variant of should_scale_down that goes on at the minimum itself
should_scale_down_at_minimum(policy, metrics, current_replicas, t) ==
    IF ~policy.enabled THEN <<FALSE, "policy_disabled">>
    ELSE IF current_replicas < policy.min_replicas THEN <<FALSE, "min_replicas_reached">>
    ELSE IF /\ policy.last_scaled_at /= NoTime
            /\ t - policy.last_scaled_at < policy.cooldown_period
         THEN <<FALSE, "cooldown_active">>
    ELSE IF /\ metrics["cpu_percent"] < policy.scale_down_cpu_threshold
            /\ metrics["memory_percent"] < policy.scale_down_memory_threshold
         THEN <<TRUE, "both_low">>
    ELSE <<FALSE, "thresholds_not_met">>

\* variant of should_scale_down that accepts a cpu reading equal to the
\* threshold
should_scale_down_at_threshold(policy, metrics, current_replicas, t) ==
    IF ~policy.enabled THEN <<FALSE, "policy_disabled">>
    ELSE IF current_replicas <= policy.min_replicas THEN <<FALSE, "min_replicas_reached">>
    ELSE IF /\ policy.last_scaled_at /= NoTime
            /\ t - policy.last_scaled_at < policy.cooldown_period
         THEN <<FALSE, "cooldown_active">>
    ELSE IF /\ metrics["cpu_percent"] <= policy.scale_down_cpu_threshold
            /\ metrics["memory_percent"] < policy.scale_down_memory_threshold
         THEN <<TRUE, "both_low">>
    ELSE <<FALSE, "thresholds_not_met">>

\* variant of cooldown_active with the comparison turned round
cooldown_active_inverted(policy, t) ==
    /\ policy.last_scaled_at /= NoTime
    /\ t - policy.last_scaled_at >= policy.cooldown_period

\* the cooldown test both decisions share: a null last_scaled_at passes
cooldown_active(policy, t) ==
    /\ policy.last_scaled_at /= NoTime
    /\ t - policy.last_scaled_at < policy.cooldown_period

\* variant of should_scale_up that tests the memory threshold first
should_scale_up_memory_first(policy, metrics, current_replicas, t) ==
    IF ~policy.enabled THEN <<FALSE, "policy_disabled">>
    ELSE IF current_replicas >= policy.max_replicas THEN <<FALSE, "max_replicas_reached">>
    ELSE IF cooldown_active(policy, t) THEN <<FALSE, "cooldown_active">>
    ELSE IF metrics["memory_percent"] >= policy.scale_up_memory_threshold THEN <<TRUE, "memory">>
    ELSE IF metrics["cpu_percent"] >= policy.scale_up_cpu_threshold THEN <<TRUE, "cpu">>
    ELSE <<FALSE, "thresholds_not_met">>

\* should_scale_up: <<decision, reason>>
should_scale_up(policy, metrics, current_replicas, t) ==
    IF ~policy.enabled THEN <<FALSE, "policy_disabled">>
    ELSE IF current_replicas >= policy.max_replicas THEN <<FALSE, "max_replicas_reached">>
    ELSE IF cooldown_active(policy, t) THEN <<FALSE, "cooldown_active">>
    ELSE IF metrics["cpu_percent"] >= policy.scale_up_cpu_threshold THEN <<TRUE, "cpu">>
    ELSE IF metrics["memory_percent"] >= policy.scale_up_memory_threshold THEN <<TRUE, "memory">>
    ELSE <<FALSE, "thresholds_not_met">>

\* should_scale_down: <<decision, reason>>
should_scale_down(policy, metrics, current_replicas, t) ==
    IF ~policy.enabled THEN <<FALSE, "policy_disabled">>
    ELSE IF current_replicas <= policy.min_replicas THEN <<FALSE, "min_replicas_reached">>
    ELSE IF cooldown_active(policy, t) THEN <<FALSE, "cooldown_active">>
    ELSE IF /\ metrics["cpu_percent"] < policy.scale_down_cpu_threshold
            /\ metrics["memory_percent"] < policy.scale_down_memory_threshold
         THEN <<TRUE, "both_low">>
    ELSE <<FALSE, "thresholds_not_met">>

\* a row of scaling_events
ScalingEvent(pid, policy, action, trigger_metric, metric_value, before, after, t) ==
    [policy_id |-> pid, container_id |-> policy.container_id, action |-> action,
     trigger_metric |-> trigger_metric, metric_value |-> metric_value,
     replica_count_before |-> before, replica_count_after |-> after, created_at |-> t]

\* replica_count_after of the event scale_up writes
ScaleUpAfter(current_replicas) == current_replicas + 1

\* variant of ScaleDownAfter that forgets the retired replica
ScaleDownAfterUnchanged(current_replicas) == current_replicas

\* replica_count_after of the event scale_down writes
ScaleDownAfter(current_replicas) == current_replicas - 1

\* scale_up: the store after the call; unchanged when the parent row is
\* missing (return False) or an exception is rolled back
scale_up(db, pid, trigger_metric, metric_value, t) ==
    LET policy == db.policies[pid]
        cs == db.containers
        current_replicas == get_current_replica_count(cs, policy.container_id)
    IN  IF policy.container_id \notin DOMAIN cs THEN db
        ELSE LET parent == cs[policy.container_id]
                 new_replica == [user_id |-> parent.user_id,
                                 name |-> parent.name \o <<"replica", current_replicas>>,
                                 image |-> parent.image,
                                 status |-> "pending",
                                 port |-> parent.port + current_replicas,
                                 deployment_type |-> "null",
                                 container_id |-> Null,
                                 parent_id |-> policy.container_id,
                                 created_at |-> t]
                 event == ScalingEvent(pid, policy, "scale_up", trigger_metric, metric_value,
                                       current_replicas, ScaleUpAfter(current_replicas), t)
             IN  [containers |-> PutRow(cs, db.nextCid, new_replica),
                  policies |-> PutRow(db.policies, pid, [policy EXCEPT !.last_scaled_at = t]),
                  events |-> Append(db.events, event),
                  nextCid |-> db.nextCid + 1]

\* variant of NewestRunningReplica that takes the running child created
\* first
OldestRunningReplica(cs, container_id) ==
    LET running == {c \in DOMAIN cs : cs[c].parent_id = container_id /\ cs[c].status = "running"}
    IN  IF running = {} THEN Null
        ELSE CHOOSE c \in running : \A d \in running : cs[c].created_at <= cs[d].created_at

\* the replica scale_down retires: the running child created last
\* (order_by created_at desc, first); Null when there is none
NewestRunningReplica(cs, container_id) ==
    LET running == {c \in DOMAIN cs : cs[c].parent_id = container_id /\ cs[c].status = "running"}
    IN  IF running = {} THEN Null
        ELSE CHOOSE c \in running :
                \A d \in running : \/ cs[d].created_at < cs[c].created_at
                                   \/ (cs[d].created_at = cs[c].created_at /\ d <= c)

\* scale_down: the store after the call; unchanged when there is no
\* running replica (return False)
scale_down(db, pid, trigger_metric, metric_value, t) ==
    LET policy == db.policies[pid]
        cs == db.containers
        current_replicas == get_current_replica_count(cs, policy.container_id)
        replica == NewestRunningReplica(cs, policy.container_id)
    IN  IF replica = Null THEN db
        ELSE LET event == ScalingEvent(pid, policy, "scale_down", trigger_metric, metric_value,
                                       current_replicas, ScaleDownAfter(current_replicas), t)
             IN  [containers |-> [cs EXCEPT ![replica].status = "stopped"],
                  policies |-> PutRow(db.policies, pid, [policy EXCEPT !.last_scaled_at = t]),
                  events |-> Append(db.events, event),
                  nextCid |-> db.nextCid]

\* the steps of scale_up and of scale_down between their first query and
\* their return, in order; an exception raised at a step leaves the steps
\* before it pending in the session
ScaleSteps == <<"change_replica", "add_event", "set_last_scaled_at", "commit">>

ScaleFaults == {"none"} \cup {ScaleSteps[i] : i \in DOMAIN ScaleSteps}

\* what the session holds when the step named fault raises, full being
\* the store the complete action leads to
Pending(db, full, fault) ==
    LET done == IF fault = "none" THEN Len(ScaleSteps)
                ELSE (CHOOSE i \in DOMAIN ScaleSteps : ScaleSteps[i] = fault) - 1
    IN  [containers |-> IF done >= 1 THEN full.containers ELSE db.containers,
         events |-> IF done >= 2 THEN full.events ELSE db.events,
         policies |-> IF done >= 3 THEN full.policies ELSE db.policies,
         nextCid |-> IF done >= 1 THEN full.nextCid ELSE db.nextCid]

\* variant of session_rollback that keeps what was pending
session_rollback_keeps_pending(db, pending) == pending

\* db.rollback(): the pending changes are discarded
session_rollback(db, pending) == db

\* db.commit(): the pending changes become the store
session_commit(db, pending) == pending

\* scale_up with an exception raised at the step fault ("none": no
\* exception): try ... commit / except ... rollback
scale_up_in_session(db, pid, trigger_metric, metric_value, t, fault) ==
    LET pending == Pending(db, scale_up(db, pid, trigger_metric, metric_value, t), fault)
    IN  IF fault = "none" THEN session_commit(db, pending) ELSE session_rollback(db, pending)

\* scale_down likewise
scale_down_in_session(db, pid, trigger_metric, metric_value, t, fault) ==
    LET pending == Pending(db, scale_down(db, pid, trigger_metric, metric_value, t), fault)
    IN  IF fault = "none" THEN session_commit(db, pending) ELSE session_rollback(db, pending)

\* the key the log line of the scale-up branch looks up in the metrics
\* dict: metrics[reason], reason being "cpu" or "memory"
ScaleUpLogKey(reason) == reason

\* the key the scale_up call of the same branch looks up
ScaleUpValueKey(reason) == IF reason = "cpu" THEN "cpu_percent" ELSE "memory_percent"

\* evaluate_policy for a metrics sample m: the store after it and the
\* line it logs.  In the scale-up branch the log line is built first; a
\* KeyError there is caught by the handler of evaluate_policy and the
\* branch ends without calling scale_up.
evaluate_policy(db, pid, m, t) ==
    LET policy == db.policies[pid]
        current_replicas == get_current_replica_count(db.containers, policy.container_id)
        up == should_scale_up(policy, m, current_replicas, t)
        down == should_scale_down(policy, m, current_replicas, t)
    IN  IF up[1]
        THEN IF ScaleUpLogKey(up[2]) \notin DOMAIN m
             THEN [db |-> db, log |-> [decision |-> "scale_up", reason |-> up[2],
                                       replicas |-> current_replicas, outcome |-> "error"]]
             ELSE [db |-> scale_up(db, pid, up[2], m[ScaleUpValueKey(up[2])], t),
                   log |-> [decision |-> "scale_up", reason |-> up[2],
                            replicas |-> current_replicas, outcome |-> "called"]]
        ELSE IF down[1]
        THEN [db |-> scale_down(db, pid, "both_low", Min({m["cpu_percent"], m["memory_percent"]}), t),
              log |-> [decision |-> "scale_down", reason |-> down[2],
                       replicas |-> current_replicas, outcome |-> "called"]]
        ELSE [db |-> db, log |-> [decision |-> "none", reason |-> up[2],
                                  replicas |-> current_replicas, outcome |-> down[2]]]

\* the line logged for a policy whose container yields no metrics
NoMetricsLog == [decision |-> "none", reason |-> "no_metrics", replicas |-> 0, outcome |-> "no_metrics"]

\* evaluate_all_policies: the enabled policies in id order, each with the
\* sample ms[pid] when its container yields metrics; the store is handed
\* from one evaluation to the next
RECURSIVE EvaluateFrom(_, _, _, _, _)
EvaluateFrom(db, log, todo, ms, t) ==
    IF todo = {} THEN [db |-> db, log |-> log]
    ELSE LET pid == Min(todo)
             r == IF get_container_metrics(db.containers, db.policies[pid].container_id) = {}
                  THEN [db |-> db, log |-> NoMetricsLog]
                  ELSE evaluate_policy(db, pid, ms[pid], t)
         IN  EvaluateFrom(r.db, PutRow(log, pid, r.log), todo \ {pid}, ms, t)

EnabledPolicies(ps) == {p \in DOMAIN ps : ps[p].enabled}

evaluate_all_policies(db, ms, t) ==
    EvaluateFrom(db, <<>>, EnabledPolicies(db.policies), ms, t)

\* the line logged when evaluating a policy ends in its except clause
ErrorLog == [decision |-> "none", reason |-> "error", replicas |-> 0, outcome |-> "error"]

\* a fault of the store while one policy is evaluated: the query of
\* get_container_metrics raises
PassFaults == {"none", "store_error"}

\* evaluate_policy on a session whose transaction is tx.  A statement that
\* fails leaves the transaction of a PostgreSQL connection aborted, and
\* every later statement on it fails until a rollback; the except clauses
\* of get_container_metrics and evaluate_policy log and return without a
\* rollback.  scale_up and scale_down end in a commit or a rollback.
evaluate_policy_in_session(db, tx, pid, m, t, fault) ==
    IF tx = "aborted" \/ fault = "store_error"
    THEN [db |-> db, tx |-> "aborted", log |-> ErrorLog]
    ELSE LET r == IF get_container_metrics(db.containers, db.policies[pid].container_id) = {}
                  THEN [db |-> db, log |-> NoMetricsLog]
                  ELSE evaluate_policy(db, pid, m, t)
         IN  [db |-> r.db, tx |-> "ok", log |-> r.log]

\* the loop of evaluate_all_policies on one session, with the faults the
\* store raises per policy
RECURSIVE EvaluateFromInSession(_, _, _, _, _, _, _)
EvaluateFromInSession(db, tx, log, todo, ms, t, faults) ==
    IF todo = {} THEN [db |-> db, log |-> log]
    ELSE LET pid == Min(todo)
             r == evaluate_policy_in_session(db, tx, pid, ms[pid], t, faults[pid])
         IN  EvaluateFromInSession(r.db, r.tx, PutRow(log, pid, r.log), todo \ {pid}, ms, t, faults)

evaluate_all_policies_in_session(db, ms, t, faults) ==
    EvaluateFromInSession(db, "ok", <<>>, EnabledPolicies(db.policies), ms, t, faults)

\* ------------------------------------------------ requests: containers
Resp(op, code) == [op |-> op, code |-> code]

\* a row a deploy request inserts
NewContainer(u, name, port, dtype, status, handle) ==
    [user_id |-> u, name |-> name, image |-> "img", status |-> status, port |-> port,
     deployment_type |-> dtype, container_id |-> handle, parent_id |-> Null, created_at |-> now]

\* POST /containers/deploy, deployment_type simulated or dockerhub; docker
\* is what the container driver answers
DeployContainer(u, name, port, dtype, docker) ==
    LET assigned_port == IF port /= Null THEN port ELSE find_available_port(containers, StartPort)
        insert(status, handle) ==
            /\ containers' = PutRow(containers, nextCid, NewContainer(u, name, assigned_port, dtype, status, handle))
            /\ nextCid' = nextCid + 1
    IN  /\ nextCid <= MaxContainers
        /\ IF \E c \in DOMAIN containers : containers[c].user_id = u /\ containers[c].name = name
           THEN /\ lastOp' = Resp("deploy", 400)
                /\ UNCHANGED <<containers, nextCid>>
           ELSE IF dtype = "simulated"
           THEN /\ docker = "ok"
                /\ insert("running", Null)
                /\ lastOp' = Resp("deploy", 201)
           ELSE IF docker = "unavailable"
           THEN /\ lastOp' = Resp("deploy", 503)
                /\ UNCHANGED <<containers, nextCid>>
           ELSE IF docker = "run_failed"
           THEN /\ insert("error", Null)
                /\ lastOp' = Resp("deploy", 500)
           ELSE /\ insert("running", 1)
                /\ lastOp' = Resp("deploy", 201)
        /\ evalLog' = <<>>
        /\ UNCHANGED <<policies, events, nextPid, now, ltVars, fnVars>>

\* POST /containers/{id}/start
StartContainer(u, c) ==
    /\ IF c \notin DOMAIN containers
       THEN lastOp' = Resp("start", 404) /\ UNCHANGED containers
       ELSE IF ~MayManage(u, containers[c])
       THEN lastOp' = Resp("start", 403) /\ UNCHANGED containers
       ELSE /\ lastOp' = Resp("start", 200)
            /\ containers' = [containers EXCEPT ![c].status = "running"]
    /\ evalLog' = <<>>
    /\ UNCHANGED <<ltVars, fnVars>>
    /\ UNCHANGED <<policies, events, nextCid, nextPid, now>>

\* POST /containers/{id}/stop
StopContainer(u, c) ==
    /\ IF c \notin DOMAIN containers
       THEN lastOp' = Resp("stop", 404) /\ UNCHANGED containers
       ELSE IF ~MayManage(u, containers[c])
       THEN lastOp' = Resp("stop", 403) /\ UNCHANGED containers
       ELSE /\ lastOp' = Resp("stop", 200)
            /\ containers' = [containers EXCEPT ![c].status = "stopped"]
    /\ evalLog' = <<>>
    /\ UNCHANGED <<ltVars, fnVars>>
    /\ UNCHANGED <<policies, events, nextCid, nextPid, now>>

\* the events left when the policies gone and the container c are deleted
\* (ON DELETE CASCADE of scaling_events.policy_id and .container_id)
CascadeEvents(ev, gone, c) ==
    SelectSeq(ev, LAMBDA e : e.policy_id \notin gone /\ e.container_id /= c)

\* DELETE /containers/{id}: the foreign key of containers.parent_id has
\* no ON DELETE rule, so a row that still has children cannot be deleted
DeleteContainer(u, c) ==
    /\ IF c \notin DOMAIN containers
       THEN lastOp' = Resp("delete", 404) /\ UNCHANGED <<containers, policies, events>>
       ELSE IF ~MayManage(u, containers[c])
       THEN lastOp' = Resp("delete", 403) /\ UNCHANGED <<containers, policies, events>>
       ELSE IF \E d \in DOMAIN containers : containers[d].parent_id = c
       THEN lastOp' = Resp("delete", 500) /\ UNCHANGED <<containers, policies, events>>
       ELSE LET gone == {p \in DOMAIN policies : policies[p].container_id = c}
            IN  /\ lastOp' = Resp("delete", 200)
                /\ containers' = DropRow(containers, c)
                /\ policies' = [p \in DOMAIN policies \ gone |-> policies[p]]
                /\ events' = CascadeEvents(events, gone, c)
    /\ evalLog' = <<>>
    /\ UNCHANGED <<ltVars, fnVars>>
    /\ UNCHANGED <<nextCid, nextPid, now>>

\* ------------------------------------------------- requests: policies
\* the bodies ScalingPolicyCreate accepts (each field within its Field
\* bounds; min_replicas and max_replicas are validated separately)
PolicyInputs ==
    [enabled : {TRUE},
     scale_up_cpu_threshold : UpCpuInputs, scale_up_memory_threshold : UpMemInputs,
     scale_down_cpu_threshold : DownCpuInputs, scale_down_memory_threshold : DownMemInputs,
     min_replicas : ReplicaInputs, max_replicas : ReplicaInputs,
     cooldown_period : CooldownInputs]

\* POST /autoscaling/policies
CreatePolicy(u, c, body) ==
    /\ nextPid <= MaxPolicies
    /\ IF ~(c \in DOMAIN containers /\ containers[c].user_id = u)
       THEN lastOp' = Resp("create_policy", 404) /\ UNCHANGED <<policies, nextPid>>
       ELSE IF \E p \in DOMAIN policies : policies[p].container_id = c /\ policies[p].user_id = u
       THEN lastOp' = Resp("create_policy", 400) /\ UNCHANGED <<policies, nextPid>>
       ELSE /\ lastOp' = Resp("create_policy", 201)
            /\ policies' = PutRow(policies, nextPid,
                                  [container_id |-> c, user_id |-> u, enabled |-> body.enabled,
                                   scale_up_cpu_threshold |-> body.scale_up_cpu_threshold,
                                   scale_up_memory_threshold |-> body.scale_up_memory_threshold,
                                   scale_down_cpu_threshold |-> body.scale_down_cpu_threshold,
                                   scale_down_memory_threshold |-> body.scale_down_memory_threshold,
                                   min_replicas |-> body.min_replicas, max_replicas |-> body.max_replicas,
                                   cooldown_period |-> body.cooldown_period,
                                   last_scaled_at |-> NoTime])
            /\ nextPid' = nextPid + 1
    /\ evalLog' = <<>>
    /\ UNCHANGED <<ltVars, fnVars>>
    /\ UNCHANGED <<containers, events, nextCid, now>>

\* POST /autoscaling/policies as the statements it runs.  The endpoint is
\* a plain def, so two requests run on two worker threads, each with its
\* own session; the two queries come first, the insert is committed later.
RequestIds == {1, 2}

\* no request under way
NoRequests ==
    [r \in RequestIds |-> [pc |-> "idle", u |-> Null, c |-> Null,
                           body |-> CHOOSE b \in PolicyInputs : TRUE]]

\* the queries of create_scaling_policy: the container must be the
\* caller's (404) and the caller must have no policy on it yet (400)
CreatePolicyCheck(r, u, c, body) ==
    /\ inflight[r].pc = "idle"
    /\ nextPid <= MaxRacePolicies
    /\ IF ~(c \in DOMAIN containers /\ containers[c].user_id = u)
       THEN lastOp' = Resp("create_policy", 404) /\ UNCHANGED inflight
       ELSE IF \E p \in DOMAIN policies : policies[p].container_id = c /\ policies[p].user_id = u
       THEN lastOp' = Resp("create_policy", 400) /\ UNCHANGED inflight
       ELSE /\ inflight' = [inflight EXCEPT ![r] = [pc |-> "checked", u |-> u, c |-> c, body |-> body]]
            /\ lastOp' = Resp("create_policy", 0)
    /\ evalLog' = <<>>
    /\ UNCHANGED <<decideIn, decideOut, applyIn, applyOut, sessions, svcVars, ltVars>>
    /\ UNCHANGED <<containers, policies, events, nextCid, nextPid, now>>

\* db.add(db_policy); db.commit(): the row is inserted; a container that
\* was deleted meanwhile fails the foreign key (500)
CreatePolicyCommit(r) ==
    /\ inflight[r].pc = "checked"
    /\ nextPid <= MaxRacePolicies
    /\ LET q == inflight[r]
       IN  IF q.c \notin DOMAIN containers
           THEN lastOp' = Resp("create_policy", 500) /\ UNCHANGED <<policies, nextPid>>
           ELSE /\ lastOp' = Resp("create_policy", 201)
                /\ policies' = PutRow(policies, nextPid,
                                      [container_id |-> q.c, user_id |-> q.u, enabled |-> q.body.enabled,
                                       scale_up_cpu_threshold |-> q.body.scale_up_cpu_threshold,
                                       scale_up_memory_threshold |-> q.body.scale_up_memory_threshold,
                                       scale_down_cpu_threshold |-> q.body.scale_down_cpu_threshold,
                                       scale_down_memory_threshold |-> q.body.scale_down_memory_threshold,
                                       min_replicas |-> q.body.min_replicas, max_replicas |-> q.body.max_replicas,
                                       cooldown_period |-> q.body.cooldown_period,
                                       last_scaled_at |-> NoTime])
                /\ nextPid' = nextPid + 1
    /\ inflight' = [inflight EXCEPT ![r] = NoRequests[r]]
    /\ evalLog' = <<>>
    /\ UNCHANGED <<decideIn, decideOut, applyIn, applyOut, sessions, svcVars, ltVars>>
    /\ UNCHANGED <<containers, events, nextCid, now>>

\* the fields a ScalingPolicyUpdate body sets and the values it may carry
UpdateInputs ==
    ({"enabled"} \X BOOLEAN) \cup ({"min_replicas", "max_replicas"} \X ReplicaInputs)
    \cup ({"cooldown_period"} \X CooldownInputs)

\* PUT /autoscaling/policies/{id} with one field set
UpdatePolicy(u, p, kv) ==
    /\ IF ~(p \in DOMAIN policies /\ policies[p].user_id = u)
       THEN lastOp' = Resp("update_policy", 404) /\ UNCHANGED policies
       ELSE /\ lastOp' = Resp("update_policy", 200)
            /\ policies' = [policies EXCEPT ![p] = [f \in DOMAIN policies[p] |->
                                IF f = kv[1] THEN kv[2] ELSE policies[p][f]]]
    /\ evalLog' = <<>>
    /\ UNCHANGED <<ltVars, fnVars>>
    /\ UNCHANGED <<containers, events, nextCid, nextPid, now>>

\* variant of toggled that switches the policy on
toggled_on(policy) == [policy EXCEPT !.enabled = TRUE]

\* policy.enabled = not policy.enabled
toggled(policy) == [policy EXCEPT !.enabled = ~policy.enabled]

\* POST /autoscaling/policies/{id}/toggle
TogglePolicy(u, p) ==
    /\ IF ~(p \in DOMAIN policies /\ policies[p].user_id = u)
       THEN lastOp' = Resp("toggle_policy", 404) /\ UNCHANGED policies
       ELSE /\ lastOp' = Resp("toggle_policy", 200)
            /\ policies' = [policies EXCEPT ![p] = toggled(policies[p])]
    /\ evalLog' = <<>>
    /\ UNCHANGED <<ltVars, fnVars>>
    /\ UNCHANGED <<containers, events, nextCid, nextPid, now>>

\* DELETE /autoscaling/policies/{id}
DeletePolicy(u, p) ==
    /\ IF ~(p \in DOMAIN policies /\ policies[p].user_id = u)
       THEN lastOp' = Resp("delete_policy", 404) /\ UNCHANGED <<policies, events>>
       ELSE /\ lastOp' = Resp("delete_policy", 204)
            /\ policies' = DropRow(policies, p)
            /\ events' = CascadeEvents(events, {p}, Null)
    /\ evalLog' = <<>>
    /\ UNCHANGED <<ltVars, fnVars>>
    /\ UNCHANGED <<containers, nextCid, nextPid, now>>

\* -------------------------------------------------- evaluation passes
\* one pass of evaluate_all_policies at time t, committed to the store
Pass(op, t) ==
    \E ms \in [EnabledPolicies(policies) -> MetricSamples] :
        LET r == evaluate_all_policies(CurStore, ms, t)
        IN  /\ r.db.nextCid <= MaxContainers + 1
            /\ Len(r.db.events) <= MaxEvents
            /\ containers' = r.db.containers
            /\ policies' = r.db.policies
            /\ events' = r.db.events
            /\ nextCid' = r.db.nextCid
            /\ evalLog' = r.log
            /\ lastOp' = Resp(op, 200)

\* autoscaler_background_task: sleep 30 s, then one pass on a new session
BackgroundTick ==
    /\ now + TickPeriod <= MaxTime
    /\ now' = now + TickPeriod
    /\ Pass("tick", now + TickPeriod)
    /\ UNCHANGED <<nextPid, ltVars, fnVars>>

\* POST /autoscaling/evaluate-now: one pass over all enabled policies
EvaluateNow(u) ==
    /\ Pass("evaluate_now", now)
    /\ UNCHANGED <<nextPid, now, ltVars, fnVars>>

\* the sample with both metrics at their highest
HighSample ==
    CHOOSE m \in MetricSamples : \A k \in MetricSamples :
        m["cpu_percent"] >= k["cpu_percent"] /\ m["memory_percent"] >= k["memory_percent"]

\* a caller of the service invokes AutoScalerService.scale_up itself, with
\* a trigger and the value of that metric in a sample
ScaleUpCall(p, trigger, m) ==
    /\ p \in DOMAIN policies
    /\ nextCid <= MaxContainers
    /\ Len(events) < MaxEvents
    /\ LET db == scale_up(CurStore, p, trigger, m[ScaleUpValueKey(trigger)], now)
       IN  /\ containers' = db.containers
           /\ policies' = db.policies
           /\ events' = db.events
           /\ nextCid' = db.nextCid
    /\ lastOp' = Resp("scale_up", 0)
    /\ evalLog' = <<>>
    /\ UNCHANGED <<nextPid, now, ltVars, fnVars>>

\* ------------------------------------------------- the two clocks
\* how far, in seconds as the columns read, the start of the database
\* transaction lies before the statement that stamps the policy
StampLags == {0, 1}

\* ScalingEvent.created_at is never passed by scale_up or scale_down: the
\* column default func.now() fills it with the start time of the database
\* transaction, while last_scaled_at is datetime.now() of the process.
\* The rows added to before get the transaction's start time begun.
server_default(before, after, begun) ==
    [i \in DOMAIN after |->
        IF i > Len(before) THEN [after[i] EXCEPT !.created_at = begun] ELSE after[i]]

\* one pass at time t whose transaction began at begun
ClockedPass(op, t, begun) ==
    \E ms \in [EnabledPolicies(policies) -> MetricSamples] :
        LET r == evaluate_all_policies(CurStore, ms, t)
        IN  /\ r.db.nextCid <= MaxContainers + 1
            /\ Len(r.db.events) <= MaxEvents
            /\ containers' = r.db.containers
            /\ policies' = r.db.policies
            /\ events' = server_default(events, r.db.events, begun)
            /\ nextCid' = r.db.nextCid
            /\ evalLog' = r.log
            /\ lastOp' = Resp(op, 200)

\* autoscaler_background_task with both clocks
ClockedTick(lag) ==
    /\ now + TickPeriod <= MaxTime
    /\ now' = now + TickPeriod
    /\ ClockedPass("tick", now + TickPeriod, now + TickPeriod - lag)
    /\ UNCHANGED <<nextPid, ltVars, fnVars>>

\* AutoScalerService.scale_up called by a caller of the service, with both
\* clocks
ClockedScaleUpCall(p, trigger, m, lag) ==
    /\ p \in DOMAIN policies
    /\ nextCid <= MaxContainers
    /\ Len(events) < MaxEvents
    /\ now - lag >= 0
    /\ LET db == scale_up(CurStore, p, trigger, m[ScaleUpValueKey(trigger)], now)
       IN  /\ containers' = db.containers
           /\ policies' = db.policies
           /\ events' = server_default(events, db.events, now - lag)
           /\ nextCid' = db.nextCid
    /\ lastOp' = Resp("scale_up", 0)
    /\ evalLog' = <<>>
    /\ UNCHANGED <<nextPid, now, ltVars, fnVars>>

\* ------------------------------------------------ the decision alone
\* the arguments should_scale_up is applied to
DecideInputs ==
    [policy : [enabled : BOOLEAN, max_replicas : ReplicaInputs,
               scale_up_cpu_threshold : DecideCpuThresholds,
               scale_up_memory_threshold : DecideMemThresholds,
               cooldown_period : CooldownInputs,
               last_scaled_at : {NoTime, 0, TickPeriod}],
     metrics : MetricSamples,
     current_replicas : 0..(MaxReplicaInput + 1),
     t : {TickPeriod, 2 * TickPeriod, 3 * TickPeriod}]

NotDecided == <<FALSE, "not_called">>

\* one call of should_scale_up
Decide ==
    /\ decideOut = NotDecided
    /\ decideOut' = should_scale_up(decideIn.policy, decideIn.metrics,
                                    decideIn.current_replicas, decideIn.t)
    /\ UNCHANGED <<decideIn, applyIn, applyOut, sessions, inflight, svcVars, asVars, ltVars>>

\* ------------------------------------------- the service methods alone
\* a deployed container of user 1
ParentRow(status) ==
    [user_id |-> 1, name |-> <<"web">>, image |-> "img", status |-> status, port |-> StartPort,
     deployment_type |-> "simulated", container_id |-> Null, parent_id |-> Null, created_at |-> 0]

\* the k-th replica of container 1 as scale_up inserted it, now in status
ReplicaRow(k, status) ==
    [user_id |-> 1, name |-> <<"web", "replica", k>>, image |-> "img", status |-> status,
     port |-> StartPort + k, deployment_type |-> "null", container_id |-> Null, parent_id |-> 1,
     created_at |-> k * TickPeriod]

ReplicaStatuses == {"running", "stopped", "pending"}

\* the containers tables the methods are applied to: container 1 running
\* or stopped, with none, one or two replicas, the second created later
ApplyContainers ==
    {<<ParentRow(ps)>> : ps \in {"running", "stopped"}}
    \cup {<<ParentRow(ps), ReplicaRow(1, r)>> : ps \in {"running", "stopped"}, r \in ReplicaStatuses}
    \cup {<<ParentRow(ps), ReplicaRow(1, r), ReplicaRow(2, q)>> :
            ps \in {"running", "stopped"}, r \in ReplicaStatuses, q \in ReplicaStatuses}

\* the policies the methods are applied to, on container c
ApplyPolicies(c) ==
    [container_id : {c}, user_id : {1}, enabled : BOOLEAN,
     scale_up_cpu_threshold : {3, 12}, scale_up_memory_threshold : {25},
     scale_down_cpu_threshold : {7}, scale_down_memory_threshold : {10, 25},
     min_replicas : ReplicaInputs, max_replicas : 1..(MaxReplicaInput + 1),
     cooldown_period : CooldownInputs, last_scaled_at : {NoTime, 0}]

\* a store with one policy, on container 1 or on its first replica
ApplyInputs ==
    {[db |-> Store(cs, <<pol>>, <<>>, Len(cs) + 1), pid |-> 1, metrics |-> m, t |-> t] :
        cs \in ApplyContainers, pol \in ApplyPolicies(1) \cup ApplyPolicies(2),
        m \in MetricSamples, t \in {TickPeriod, 2 * TickPeriod}}

NotApplied(in) == [op |-> "none", fault |-> "none", db |-> in.db, log |-> NoMetricsLog]

\* one call of evaluate_policy on a container that yields metrics
ApplyEvaluate ==
    /\ applyOut.op = "none"
    /\ get_container_metrics(applyIn.db.containers, applyIn.db.policies[applyIn.pid].container_id) /= {}
    /\ LET r == evaluate_policy(applyIn.db, applyIn.pid, applyIn.metrics, applyIn.t)
       IN  applyOut' = [op |-> "evaluate", fault |-> "none", db |-> r.db, log |-> r.log]
    /\ UNCHANGED <<applyIn, sessions, decideIn, decideOut, inflight, svcVars, asVars, ltVars>>

\* one call of scale_down, with the arguments evaluate_policy passes and
\* an exception at the step fault
ApplyScaleDown(fault) ==
    /\ applyOut.op = "none"
    /\ applyIn.db.policies[applyIn.pid].container_id \in DOMAIN applyIn.db.containers
    /\ LET m == applyIn.metrics
           db == scale_down_in_session(applyIn.db, applyIn.pid, "both_low",
                                       Min({m["cpu_percent"], m["memory_percent"]}), applyIn.t, fault)
       IN  applyOut' = [op |-> "scale_down", fault |-> fault, db |-> db, log |-> NoMetricsLog]
    /\ UNCHANGED <<applyIn, sessions, decideIn, decideOut, inflight, svcVars, asVars, ltVars>>

\* one call of scale_up for the cpu reading, with an exception at the
\* step fault
ApplyScaleUp(fault) ==
    /\ applyOut.op = "none"
    /\ applyIn.db.policies[applyIn.pid].container_id \in DOMAIN applyIn.db.containers
    /\ LET db == scale_up_in_session(applyIn.db, applyIn.pid, "cpu",
                                     applyIn.metrics["cpu_percent"], applyIn.t, fault)
       IN  applyOut' = [op |-> "scale_up", fault |-> fault, db |-> db, log |-> NoMetricsLog]
    /\ UNCHANGED <<applyIn, sessions, decideIn, decideOut, inflight, svcVars, asVars, ltVars>>

\* toggle_scaling_policy by the policy's owner, once and once more
ApplyToggle ==
    /\ applyOut.op \in {"none", "toggle"}
    /\ applyOut' = [applyOut EXCEPT
            !.op = IF applyOut.op = "none" THEN "toggle" ELSE "toggle_twice",
            !.db = [applyOut.db EXCEPT !.policies =
                        [applyOut.db.policies EXCEPT ![applyIn.pid] = toggled(applyOut.db.policies[applyIn.pid])]]]
    /\ UNCHANGED <<applyIn, sessions, decideIn, decideOut, inflight, svcVars, asVars, ltVars>>

\* ------------------------------------------- passes running at once
\* The background tick runs evaluate_all_policies on the event-loop
\* thread, evaluate-now runs it on a worker thread of the request; each
\* has a session of its own, takes no lock and reads what is committed
\* when a statement runs.  The statements of one pass over one policy:
\*   load     the enabled policies are queried (the policy row is read)
\*   observe  metrics, replica count, should_scale_up / should_scale_down
\*   select   scale_down: replica count and newest running replica
\*   commit   scale_down: replica stopped, event, last_scaled_at
SessionIds == {"tick", "evaluate_now"}

\* no pass has begun: each session still holds nothing of the store
NoSessions(in) ==
    [s \in SessionIds |-> [pc |-> "load", policy |-> in.db.policies[in.pid],
                           current_replicas |-> 0, replica |-> Null]]

\* evaluate_all_policies, line 242: the policy row as committed now
SessionLoad(s) ==
    /\ sessions[s].pc = "load"
    /\ sessions' = [sessions EXCEPT ![s].policy = applyOut.db.policies[applyIn.pid],
                                    ![s].pc = IF applyOut.db.policies[applyIn.pid].enabled
                                              THEN "observe" ELSE "done"]
    /\ applyOut' = [applyOut EXCEPT !.op = "race"]
    /\ UNCHANGED <<applyIn, decideIn, decideOut, inflight, svcVars, asVars, ltVars>>

\* evaluate_policy up to its decision, on the policy row the session holds
\* and the containers committed now; the scale-up branch ends in its
\* KeyError
SessionObserve(s) ==
    /\ sessions[s].pc = "observe"
    /\ LET policy == sessions[s].policy
           n == get_current_replica_count(applyOut.db.containers, policy.container_id)
           up == should_scale_up(policy, applyIn.metrics, n, applyIn.t)
           down == should_scale_down(policy, applyIn.metrics, n, applyIn.t)
           none == get_container_metrics(applyOut.db.containers, policy.container_id) = {}
       IN  sessions' = [sessions EXCEPT ![s].pc = IF ~none /\ ~up[1] /\ down[1]
                                                  THEN "select" ELSE "done"]
    /\ UNCHANGED <<applyIn, applyOut, decideIn, decideOut, inflight, svcVars, asVars, ltVars>>

\* scale_down, lines 168-178: the count and the replica to retire
SessionSelect(s) ==
    /\ sessions[s].pc = "select"
    /\ LET cid == sessions[s].policy.container_id
           replica == NewestRunningReplica(applyOut.db.containers, cid)
       IN  sessions' = [sessions EXCEPT
                ![s].current_replicas = get_current_replica_count(applyOut.db.containers, cid),
                ![s].replica = replica,
                ![s].pc = IF replica = Null THEN "done" ELSE "commit"]
    /\ UNCHANGED <<applyIn, applyOut, decideIn, decideOut, inflight, svcVars, asVars, ltVars>>

\* scale_down, lines 182-199: the session's changes are committed
SessionCommit(s) ==
    /\ sessions[s].pc = "commit"
    /\ LET db == applyOut.db
           policy == sessions[s].policy
           event == ScalingEvent(applyIn.pid, policy, "scale_down", "both_low",
                                 Min({applyIn.metrics["cpu_percent"], applyIn.metrics["memory_percent"]}),
                                 sessions[s].current_replicas,
                                 ScaleDownAfter(sessions[s].current_replicas), applyIn.t)
       IN  applyOut' = [applyOut EXCEPT !.db =
                [containers |-> [db.containers EXCEPT ![sessions[s].replica].status = "stopped"],
                 policies |-> [db.policies EXCEPT ![applyIn.pid].last_scaled_at = applyIn.t],
                 events |-> Append(db.events, event),
                 nextCid |-> db.nextCid]]
    /\ sessions' = [sessions EXCEPT ![s].pc = "done"]
    /\ UNCHANGED <<applyIn, decideIn, decideOut, inflight, svcVars, asVars, ltVars>>

\* the stores two passes meet: container 1 with its replicas and an
\* enabled policy on it
RaceInputs ==
    {in \in ApplyInputs :
        /\ in.db.policies[in.pid].container_id = 1
        /\ in.db.policies[in.pid].enabled
        /\ in.db.policies[in.pid].min_replicas = 1
        /\ in.db.policies[in.pid].scale_up_cpu_threshold = 12}

\* ---------------------------------------------- one pass on its own
\* a second deployed container, with a docker handle or simulated
SecondParentRow(handle) == [ParentRow("running") EXCEPT !.name = <<"api">>, !.container_id = handle]

\* a replica of container c
ReplicaOf(c, name, status) == [ReplicaRow(1, status) EXCEPT !.parent_id = c, !.name = <<name, "replica", 1>>]

\* two containers with a replica each and a policy each
PassStores ==
    {Store(<<ParentRow("running"), SecondParentRow(h), ReplicaOf(1, "web", r1), ReplicaOf(2, "api", r2)>>,
           <<p1, p2>>, <<>>, 5) :
        h \in {Null, 1}, r1 \in {"running", "stopped"}, r2 \in {"running", "stopped"},
        p1 \in {q \in ApplyPolicies(1) : q.min_replicas = 1 /\ q.max_replicas = 2 /\ q.scale_up_cpu_threshold = 12},
        p2 \in {q \in ApplyPolicies(2) : q.min_replicas = 1 /\ q.max_replicas = 2 /\ q.scale_up_cpu_threshold = 12
                                          /\ q.scale_down_memory_threshold = 25 /\ q.last_scaled_at = NoTime}}

PassSamples == {m \in MetricSamples : m["memory_percent"] = 10}

PassInputs ==
    {[db |-> db, pid |-> 2, metrics |-> ms, t |-> 2 * TickPeriod, faults |-> f] :
        db \in PassStores, ms \in [{1, 2} -> PassSamples], f \in [{1, 2} -> PassFaults]}

\* one pass over the store
ApplyPass ==
    /\ applyOut.op = "none"
    /\ LET r == evaluate_all_policies_in_session(applyIn.db, applyIn.metrics, applyIn.t, applyIn.faults)
       IN  applyOut' = [op |-> "pass", fault |-> "none", db |-> r.db, log |-> r.log]
    /\ UNCHANGED <<applyIn, sessions, decideIn, decideOut, inflight, svcVars, asVars, ltVars>>

\* ================================================== load-test engine
\* One load test (row TestId of load_tests) and the asyncio tasks that run
\* it: the request task that executes execute_load_test (main), the metric
\* sampler and one task per request.  A task runs from one await to the
\* next without interruption; the clock advances only when no task can run.

\* ---------------------------------------------------------------- bounds
MaxRequests == 3        \* total_requests offered to POST /loadtest/start
MaxConcurrency == 2     \* concurrency offered to POST /loadtest/start
MaxTick == 260          \* the load-test clock stops here (ticks)

\* ------------------------------------------------------ program constants
TicksPerSecond == 10    \* resolution of the load-test clock
MinDuration == 10       \* duration_seconds: Field(ge=10)
DrainWait == 20         \* wait_end = time.time() + 2.0
DrainPoll == 1          \* await asyncio.sleep(0.1)
SamplePeriod == 20      \* await asyncio.sleep(2) of the sampler
RequestTimeout == 50    \* httpx.AsyncClient(timeout=5.0)
TestId == 1

\* what a request to the target can do: <<latency in ticks, outcome>>
Responses == {<<1, "ok">>, <<1, "error">>, <<RequestTimeout, "timeout">>}
\* how long "docker stats --no-stream" takes (ticks)
StatsLatencies == {15}
\* duration_seconds offered to POST /loadtest/start
DurationInputs == {MinDuration}

Terminal == {"completed", "failed", "cancelled"}

\* a LoadTestService as get_load_test_service builds it for a request:
\* __init__ leaves active_tests empty
NewLoadTestService == [active_tests |-> {}]

\* the interval between two dispatches, in ticks:
\* 1.0 / (total_requests / duration_seconds), rounded down to a tick
Interval(total_requests, duration_seconds) ==
    (duration_seconds * TicksPerSecond) \div total_requests

NoTest ==
    [status |-> "none", total_requests |-> 0, concurrency |-> 0, duration_seconds |-> 0,
     simulated |-> TRUE, requests_sent |-> 0, requests_completed |-> 0, requests_failed |-> 0,
     started_at |-> NoTime, completed_at |-> NoTime, error_message |-> "",
     avg_response_time_ms |-> NoTime, min_response_time_ms |-> NoTime,
     max_response_time_ms |-> NoTime, peak_cpu_percent |-> NoTime]

IdleTask == [pc |-> "none", wake |-> 0, request_count |-> 0, start_time |-> 0,
             wait_end |-> 0, must_cancel |-> FALSE, cancelled |-> FALSE]

IdleSampler == [pc |-> "none", wake |-> 0, must_cancel |-> FALSE]

NewRequest == [state |-> "new", finish |-> 0, outcome |-> "", latency |-> 0, started |-> NoTime]

\* POST /loadtest/start: the row is inserted pending and execute_load_test
\* is queued as a background task of the request
StartLoadTest(n, c, d, simulated) ==
    /\ test.status = "none"
    /\ test' = [NoTest EXCEPT !.status = "pending", !.total_requests = n, !.concurrency = c,
                              !.duration_seconds = d, !.simulated = simulated]
    /\ committed' = test'
    /\ main' = [IdleTask EXCEPT !.pc = "queued"]
    /\ UNCHANGED <<results, tnow, reqs, sampler, metricRows, ltResp, asVars, fnVars>>

\* variant of SemaphoreFree that admits one request too many
SemaphoreFreeOffByOne(active, concurrency) == active <= concurrency

\* asyncio.Semaphore(concurrency): a slot is free while fewer than
\* concurrency requests are inside "async with semaphore"
SemaphoreFree(active, concurrency) == active < concurrency

\* the end of the dispatch loop: the drain loop, then the finally block
\* that cancels the sampler smp and awaits it
Drain(m, wait_end, smp) ==
    IF results.active > 0 /\ tnow < wait_end
    THEN /\ main' = [m EXCEPT !.pc = "drain", !.wake = tnow + DrainPoll, !.wait_end = wait_end]
         /\ sampler' = smp
    ELSE /\ main' = [m EXCEPT !.pc = "await_metrics"]
         /\ sampler' = [smp EXCEPT !.must_cancel = (smp.pc /= "done")]

\* whether the dispatch loop starts another request: the while condition
\* and the duration check
DispatchMore(request_count, elapsed) ==
    /\ request_count < test.total_requests
    /\ elapsed < test.duration_seconds * TicksPerSecond

\* the dispatcher from the top of its loop to its next await
RunDispatcher(m, smp) ==
    LET create == DispatchMore(m.request_count, tnow - m.start_time)
        rc == IF create THEN m.request_count + 1 ELSE m.request_count
        m2 == [m EXCEPT !.request_count = rc]
    IN  /\ reqs' = IF create THEN [reqs EXCEPT ![rc].state = "ready"] ELSE reqs
        /\ IF create /\ rc < test.total_requests
           THEN /\ main' = [m2 EXCEPT !.pc = "sleep",
                                      !.wake = tnow + Interval(test.total_requests, test.duration_seconds)]
                /\ sampler' = smp
           ELSE Drain(m2, tnow + DrainWait, smp)

ZeroResults == [completed |-> 0, failed |-> 0, active |-> 0, response_times |-> <<>>]

\* execute_load_test up to the first await of _run_test: the row becomes
\* running, the sampler task is created, the first request is dispatched
ExecuteStart ==
    /\ main.pc = "queued"
    /\ test' = [test EXCEPT !.status = "running", !.started_at = tnow, !.requests_sent = 0]
    /\ committed' = [test EXCEPT !.status = "running", !.started_at = tnow]
    /\ results' = ZeroResults
    /\ RunDispatcher([main EXCEPT !.start_time = tnow, !.request_count = 0],
                     [pc |-> "ready", wake |-> tnow, must_cancel |-> FALSE])
    /\ UNCHANGED <<tnow, metricRows, ltResp, asVars, fnVars>>

\* the dispatcher resumes from asyncio.sleep(interval) or from the
\* asyncio.sleep(0.1) of the drain loop; a CancelledError raised there
\* runs the finally block and is re-raised after it
MainWake ==
    /\ main.pc \in {"sleep", "drain"}
    /\ main.wake <= tnow \/ main.must_cancel
    /\ IF main.must_cancel
       THEN /\ main' = [main EXCEPT !.pc = "await_metrics", !.must_cancel = FALSE, !.cancelled = TRUE]
            /\ sampler' = [sampler EXCEPT !.must_cancel = (sampler.pc /= "done")]
            /\ UNCHANGED reqs
       ELSE IF main.pc = "sleep"
       THEN RunDispatcher(main, sampler)
       ELSE Drain(main, main.wait_end, sampler) /\ UNCHANGED reqs
    /\ UNCHANGED <<test, committed, results, tnow, metricRows, ltResp, asVars, fnVars>>

Sum(sq) == LET RECURSIVE S(_)
               S(i) == IF i = 0 THEN 0 ELSE sq[i] + S(i - 1)
           IN  S(Len(sq))

SeqRange(sq) == {sq[i] : i \in 1..Len(sq)}

\* _save_final_stats: the counters of results and the aggregates
save_final_stats(t, res, rows) ==
    LET t1 == [t EXCEPT !.requests_completed = res.completed, !.requests_failed = res.failed]
        t2 == IF res.response_times /= <<>>
              THEN [t1 EXCEPT !.avg_response_time_ms = Sum(res.response_times) \div Len(res.response_times),
                              !.min_response_time_ms = Min(SeqRange(res.response_times)),
                              !.max_response_time_ms = Max(SeqRange(res.response_times))]
              ELSE t1
    IN  IF rows /= <<>>
        THEN [t2 EXCEPT !.peak_cpu_percent = Max({rows[i].cpu_percent : i \in 1..Len(rows)})]
        ELSE t2

\* variant of MainFinish that does not await the sampler it cancelled
MainFinishEarly ==
    /\ main.pc = "await_metrics"
    /\ raised = NoFault
    /\ test' = IF main.cancelled
               THEN [test EXCEPT !.status = "cancelled", !.completed_at = tnow]
               ELSE [save_final_stats(test, results, metricRows)
                        EXCEPT !.status = "completed", !.completed_at = tnow]
    /\ committed' = test'
    /\ main' = [main EXCEPT !.pc = "done", !.must_cancel = FALSE]
    /\ UNCHANGED <<results, tnow, reqs, sampler, metricRows, ltResp, asVars, fnVars>>

\* "await metrics_task" returns: _save_final_stats and status completed;
\* after a CancelledError of the dispatcher, status cancelled instead
MainFinish ==
    /\ main.pc = "await_metrics"
    /\ sampler.pc = "done"
    /\ raised = NoFault
    /\ test' = IF main.cancelled
               THEN [test EXCEPT !.status = "cancelled", !.completed_at = tnow]
               ELSE [save_final_stats(test, results, metricRows)
                        EXCEPT !.status = "completed", !.completed_at = tnow]
    /\ committed' = test'
    /\ main' = [main EXCEPT !.pc = "done", !.must_cancel = FALSE]
    /\ UNCHANGED <<results, tnow, reqs, sampler, metricRows, ltResp, asVars, fnVars>>

\* variant of SentOnStart that does not count the request
SentOnStartNotCounted(requests_sent) == requests_sent

\* requests_sent after a request has entered the semaphore
SentOnStart(requests_sent) == requests_sent + 1

\* send_request up to "await client.get": wait for a slot of the
\* semaphore, then count the request as active and sent
ReqRun(i) ==
    /\ reqs[i].state \in {"ready", "waiting"}
    /\ IF SemaphoreFree(results.active, test.concurrency)
       THEN \E r \in Responses :
              /\ reqs' = [reqs EXCEPT ![i] = [state |-> "flight", finish |-> tnow + r[1],
                                              outcome |-> r[2], latency |-> r[1], started |-> tnow]]
              /\ results' = [results EXCEPT !.active = results.active + 1]
              /\ test' = [test EXCEPT !.requests_sent = SentOnStart(test.requests_sent)]
       ELSE /\ reqs[i].state = "ready"
            /\ reqs' = [reqs EXCEPT ![i].state = "waiting"]
            /\ UNCHANGED <<results, test>>
    /\ UNCHANGED <<committed, tnow, main, sampler, metricRows, ltResp, asVars, fnVars>>

\* the answer of the target arrives (or the timeout expires): the request
\* is counted completed or failed, leaves active and frees its slot
ReqFinish(i) ==
    /\ reqs[i].state = "flight"
    /\ reqs[i].finish <= tnow
    /\ reqs' = [reqs EXCEPT ![i].state = "done"]
    /\ results' = IF reqs[i].outcome = "ok"
                  THEN [results EXCEPT !.completed = results.completed + 1,
                                       !.response_times = Append(results.response_times,
                                                                 reqs[i].latency * (1000 \div TicksPerSecond)),
                                       !.active = results.active - 1]
                  ELSE [results EXCEPT !.failed = results.failed + 1,
                                       !.active = results.active - 1]
    /\ UNCHANGED <<test, committed, tnow, main, sampler, metricRows, ltResp, asVars, fnVars>>

\* one snapshot of _collect_metrics: the metric row, then the progress
\* counters of the test, both committed
TakeSnapshot(cpu) ==
    /\ metricRows' = Append(metricRows, [timestamp |-> tnow, cpu_percent |-> cpu,
                                         requests_completed |-> results.completed,
                                         requests_failed |-> results.failed,
                                         active_requests |-> results.active])
    /\ test' = [test EXCEPT !.requests_completed = results.completed,
                            !.requests_failed = results.failed]
    /\ committed' = test'

\* the sampler starts an iteration: for a simulated container it takes the
\* snapshot at once and sleeps 2 s; otherwise it awaits the driver's stats
SamplerRun ==
    /\ sampler.pc \in {"ready", "sleep"}
    /\ ~sampler.must_cancel
    /\ sampler.wake <= tnow
    /\ IF test.simulated
       THEN /\ TakeSnapshot(3)
            /\ sampler' = [sampler EXCEPT !.pc = "sleep", !.wake = tnow + SamplePeriod]
       ELSE /\ \E l \in StatsLatencies : sampler' = [sampler EXCEPT !.pc = "stats", !.wake = tnow + l]
            /\ UNCHANGED <<test, committed, metricRows>>
    /\ UNCHANGED <<results, tnow, main, reqs, ltResp, asVars, fnVars>>

\* the driver's stats arrive: snapshot, then sleep 2 s
SamplerStats ==
    /\ sampler.pc = "stats"
    /\ ~sampler.must_cancel
    /\ sampler.wake <= tnow
    /\ TakeSnapshot(1)
    /\ sampler' = [sampler EXCEPT !.pc = "sleep", !.wake = tnow + SamplePeriod]
    /\ UNCHANGED <<results, tnow, main, reqs, ltResp, asVars, fnVars>>

\* whether a CancelledError raised at the await the sampler is suspended
\* in ends the task: in asyncio.sleep it propagates through
\* "except asyncio.CancelledError: raise"; in the await of the driver's
\* stats the bare "except:" around it catches it and the loop goes on
CancelEndsSampler(pc) == pc /= "stats"

\* metrics_task.cancel() reaches the sampler
SamplerCancelled ==
    /\ sampler.must_cancel
    /\ IF CancelEndsSampler(sampler.pc)
       THEN /\ sampler' = [sampler EXCEPT !.pc = "done", !.must_cancel = FALSE]
            /\ UNCHANGED <<test, committed, metricRows>>
       ELSE /\ TakeSnapshot(0)
            /\ sampler' = [pc |-> "sleep", wake |-> tnow + SamplePeriod, must_cancel |-> FALSE]
    /\ UNCHANGED <<results, tnow, main, reqs, ltResp, asVars, fnVars>>

\* task.cancel() of the dispatcher m: a task suspended in "await
\* metrics_task" hands the cancellation to the sampler smp it awaits and is
\* itself resumed only when the sampler has ended; any other task gets
\* CancelledError at its next step
task_cancel(m, smp) ==
    IF m.pc = "await_metrics" /\ smp.pc /= "done"
    THEN [main |-> m, sampler |-> [smp EXCEPT !.must_cancel = TRUE]]
    ELSE [main |-> [m EXCEPT !.must_cancel = TRUE], sampler |-> smp]

\* LoadTestService.cancel_load_test on the service of the request: the
\* task is cancelled only when the service has it in active_tests
cancel_load_test(service, m, smp) ==
    IF TestId \in service.active_tests THEN task_cancel(m, smp) ELSE [main |-> m, sampler |-> smp]

\* variant of CancelRequest without the status test
CancelRequestAnyStatus ==
    /\ committed.status /= "none"
    /\ Len(ltResp) < 1
    /\ LET c == cancel_load_test(NewLoadTestService, main, sampler)
       IN  main' = c.main /\ sampler' = c.sampler
    /\ ltResp' = Append(ltResp, [code |-> 200, at |-> tnow, sent |-> test.requests_sent,
                                  dispatched |-> main.request_count])
    /\ UNCHANGED <<test, committed, results, tnow, reqs, metricRows, asVars, fnVars>>

\* DELETE /loadtest/{id}: 400 unless the committed status is running
CancelRequest ==
    /\ committed.status /= "none"
    /\ Len(ltResp) < 1
    /\ IF committed.status /= "running"
       THEN /\ ltResp' = Append(ltResp, [code |-> 400, at |-> tnow, sent |-> test.requests_sent,
                                         dispatched |-> main.request_count])
            /\ UNCHANGED <<main, sampler>>
       ELSE /\ LET c == cancel_load_test(NewLoadTestService, main, sampler)
               IN  main' = c.main /\ sampler' = c.sampler
            /\ ltResp' = Append(ltResp, [code |-> 200, at |-> tnow, sent |-> test.requests_sent,
                                         dispatched |-> main.request_count])
    /\ UNCHANGED <<test, committed, results, tnow, reqs, metricRows, asVars, fnVars>>

\* where a statement of the store session can fail: in a query, which
\* leaves the transaction of the session failed until a rollback, or in
\* the flush of a commit, which rolls the session back before it raises
FaultPoints == {"query", "commit"}

\* _collect_metrics has no handler but the one re-raising CancelledError:
\* an exception of its query or of its commit ends the sampler task; a
\* rollback expires the LoadTest object
SamplerFault(at) ==
    /\ committed.status = "running"
    /\ raised = NoFault
    /\ sampler.pc \in {"ready", "sleep"}
    /\ ~sampler.must_cancel
    /\ sampler.wake <= tnow
    /\ sampler' = [sampler EXCEPT !.pc = "done"]
    /\ raised' = [task |-> "sampler", at |-> at]
    /\ test' = IF at = "commit" THEN committed ELSE test
    /\ UNCHANGED <<committed, results, tnow, main, reqs, metricRows, ltResp, asVars>>
    /\ UNCHANGED <<decideIn, decideOut, applyIn, applyOut, sessions, inflight, loops, billing>>

\* "except Exception" of execute_load_test: status failed, error_message
\* and completed_at are set on the object t and committed; on a session
\* whose transaction has failed the commit raises in its turn, the
\* session is rolled back and the row stays as it was
handle_failure(t, row, at) ==
    IF at = "query"
    THEN [test |-> row, committed |-> row]
    ELSE LET failed == [t EXCEPT !.status = "failed", !.error_message = "error", !.completed_at = tnow]
         IN  [test |-> failed, committed |-> failed]

\* "await metrics_task" raises the exception the sampler ended with; it
\* leaves _run_test and reaches the handler of execute_load_test
MainRaise ==
    /\ main.pc = "await_metrics"
    /\ sampler.pc = "done"
    /\ raised.task = "sampler"
    /\ LET h == handle_failure(test, committed, raised.at)
       IN  test' = h.test /\ committed' = h.committed
    /\ main' = [main EXCEPT !.pc = "done", !.must_cancel = FALSE]
    /\ UNCHANGED <<results, tnow, reqs, sampler, metricRows, ltResp, asVars, fnVars>>

\* _save_final_stats raises in its query or in its commit; the handler of
\* execute_load_test runs at once
FinalStatsFault(at) ==
    /\ main.pc = "await_metrics"
    /\ sampler.pc = "done"
    /\ raised = NoFault
    /\ raised' = [task |-> "dispatcher", at |-> at]
    /\ LET t == IF at = "commit" THEN committed ELSE save_final_stats(test, results, metricRows)
           h == handle_failure(t, committed, at)
       IN  test' = h.test /\ committed' = h.committed
    /\ main' = [main EXCEPT !.pc = "done", !.must_cancel = FALSE]
    /\ UNCHANGED <<results, tnow, reqs, sampler, metricRows, ltResp, asVars>>
    /\ UNCHANGED <<decideIn, decideOut, applyIn, applyOut, sessions, inflight, loops, billing>>

\* a LoadTestService that holds the task of the test, as start_load_test
\* leaves it
ServiceWithTask == [active_tests |-> {TestId}]

\* cancel_load_test on a service that holds the task of the running test:
\* task.cancel(); the counters of results at that moment are recorded
CancelTask ==
    /\ committed.status = "running"
    /\ Len(ltResp) < 1
    /\ LET c == cancel_load_test(ServiceWithTask, main, sampler)
       IN  main' = c.main /\ sampler' = c.sampler
    /\ ltResp' = Append(ltResp, [code |-> 0, at |-> tnow, sent |-> test.requests_sent,
                                  dispatched |-> main.request_count,
                                  completed |-> results.completed, failed |-> results.failed,
                                  response_times |-> results.response_times])
    /\ UNCHANGED <<test, committed, results, tnow, reqs, metricRows, asVars, fnVars>>

\* a task that can run now
Runnable ==
    \/ main.pc = "queued"
    \/ main.pc \in {"sleep", "drain"} /\ (main.wake <= tnow \/ main.must_cancel)
    \/ main.pc = "await_metrics" /\ sampler.pc = "done"
    \/ \E i \in DOMAIN reqs : \/ reqs[i].state = "ready"
                              \/ reqs[i].state = "waiting" /\ SemaphoreFree(results.active, test.concurrency)
                              \/ reqs[i].state = "flight" /\ reqs[i].finish <= tnow
    \/ sampler.must_cancel
    \/ sampler.pc \in {"ready", "sleep", "stats"} /\ sampler.wake <= tnow

\* the times at which a suspended task wakes
Wakes ==
    (IF main.pc \in {"sleep", "drain"} THEN {main.wake} ELSE {})
    \cup {reqs[i].finish : i \in {j \in DOMAIN reqs : reqs[j].state = "flight"}}
    \cup (IF sampler.pc \in {"sleep", "stats"} THEN {sampler.wake} ELSE {})

\* the event loop is idle: time passes until the next timer
LtTick ==
    /\ ~Runnable
    /\ Wakes /= {}
    /\ Min(Wakes) <= MaxTick
    /\ tnow' = Min(Wakes)
    /\ UNCHANGED <<test, committed, results, main, reqs, sampler, metricRows, ltResp, asVars, fnVars>>

\* ------------------------------------------- the background loops
BillingPeriod == 60     \* await asyncio.sleep(60)
MaxLoopTicks == 8       \* iterations of a loop that are followed

LoopNames == {"autoscaler", "billing"}

LoopPeriod(l) == IF l = "autoscaler" THEN TickPeriod ELSE BillingPeriod

\* how the body of an iteration can end. The autoscaler's body always
\* raises: evaluate_all_policies is a plain function, so awaiting what it
\* returned is a TypeError (or the pass itself has raised). The billing
\* body catches the errors of each container and raises only when its
\* query of the containers does.
TickOutcomes(l) == IF l = "autoscaler" THEN {"raised"} ELSE {"returned", "raised"}

\* on_startup creates both tasks; each begins in its first sleep
StartedLoops ==
    [clock |-> 0,
     task |-> [l \in LoopNames |-> [pc |-> "sleep", db |-> 0, ticks |-> 0, logged |-> 0,
                                     wake |-> LoopPeriod(l)]]]

\* variant of after_tick without the handler around the iteration: the
\* exception ends the task
after_tick_unhandled(t, outcome, clock, period) ==
    IF outcome = "raised"
    THEN [t EXCEPT !.pc = "ended", !.db = t.db - 1]
    ELSE [t EXCEPT !.pc = "sleep", !.db = t.db - 1, !.wake = clock + period]

\* the end of an iteration: "finally: db.close()", then
\* "except Exception: logger.error", then the sleep of the next one
after_tick(t, outcome, clock, period) ==
    [t EXCEPT !.pc = "sleep", !.db = t.db - 1,
              !.logged = t.logged + (IF outcome = "raised" THEN 1 ELSE 0),
              !.wake = clock + period]

\* asyncio.sleep returns: db = SessionLocal() and the body begins
LoopWake(l) ==
    /\ loops.task[l].pc = "sleep"
    /\ loops.task[l].wake <= loops.clock
    /\ loops.task[l].ticks < MaxLoopTicks
    /\ loops' = [loops EXCEPT !.task[l].pc = "tick", !.task[l].db = loops.task[l].db + 1,
                              !.task[l].ticks = loops.task[l].ticks + 1]
    /\ UNCHANGED <<raised, billing, decideIn, decideOut, applyIn, applyOut, sessions, inflight, asVars, ltVars>>

\* the body of the iteration ends
LoopTick(l, outcome) ==
    /\ loops.task[l].pc = "tick"
    /\ loops' = [loops EXCEPT !.task[l] = after_tick(loops.task[l], outcome, loops.clock, LoopPeriod(l))]
    /\ UNCHANGED <<raised, billing, decideIn, decideOut, applyIn, applyOut, sessions, inflight, asVars, ltVars>>

\* both loops sleep: time passes until the first of them wakes
LoopClock ==
    LET followed == {l \in LoopNames : loops.task[l].ticks < MaxLoopTicks}
    IN  /\ followed /= {}
        /\ \A l \in LoopNames : loops.task[l].pc = "sleep"
        /\ \A l \in followed : loops.task[l].wake > loops.clock
        /\ loops' = [loops EXCEPT !.clock = Min({loops.task[l].wake : l \in followed})]
    /\ UNCHANGED <<raised, billing, decideIn, decideOut, applyIn, applyOut, sessions, inflight, asVars, ltVars>>

\* ------------------------------------------------------- billing
MaxSeedRuns == 2        \* runs of initialize_pricing_models per caller

Providers == {"aws", "gcp", "azure"}

\* DEFAULT_PRICING, in ten-thousandths of a dollar (every rate of the
\* table is a whole number of them)
DEFAULT_PRICING ==
    [p \in Providers |->
        IF p = "aws"
        THEN [cpu_per_hour |-> 500, memory_per_gb_hour |-> 100, storage_per_gb_month |-> 800]
        ELSE IF p = "gcp"
        THEN [cpu_per_hour |-> 335, memory_per_gb_hour |-> 45, storage_per_gb_month |-> 1000]
        ELSE [cpu_per_hour |-> 480, memory_per_gb_hour |-> 62, storage_per_gb_month |-> 1000]]

\* rates of a row that was changed in the store after it was seeded
EditedRates == [cpu_per_hour |-> 615, memory_per_gb_hour |-> 205, storage_per_gb_month |-> 900]

\* a row of pricing_models
PricingRow(p, rates) ==
    [provider_name |-> p, cpu_per_hour |-> rates.cpu_per_hour,
     memory_per_gb_hour |-> rates.memory_per_gb_hour,
     storage_per_gb_month |-> rates.storage_per_gb_month]

ProvidersOf(rows) == {rows[i].provider_name : i \in 1..Len(rows)}

\* the tables of pricing_models seeding can find: any of the providers
\* present, each with the default or with edited rates
RECURSIVE TablesOver(_)
TablesOver(ps) ==
    IF ps = {} THEN {<<>>}
    ELSE LET p == CHOOSE q \in ps : TRUE
             rest == TablesOver(ps \ {p})
         IN  rest \cup {<<PricingRow(p, r)>> \o t : r \in {DEFAULT_PRICING[p], EditedRates}, t \in rest}

PricingTables == TablesOver(Providers)

\* the sessions that can seed at once: on_startup and the requests
\* GET /billing/pricing-models
SeedCallers == {"startup", "request"}

\* no call of calculate_cost, and no result of one
NoCall == [cpu_cores |-> 0, memory_gb |-> 0, storage_gb |-> 0, duration_hours |-> 0, provider |-> "aws"]
NoCost == [cpu_cost |-> 0, memory_cost |-> 0, storage_cost |-> 0, total_cost |-> 0, provider |-> "none"]

\* no answer of POST /billing/real-time/calculate yet
NoBillingResp == [code |-> 0, samples |-> 0, costs |-> NoCost]

\* the billing store with the table rows and no caller under way
NewBilling(rows) ==
    [input |-> rows, rows |-> rows,
     seed |-> [s \in SeedCallers |-> [pc |-> "idle", pending |-> {}, runs |-> 0, raised |-> 0]],
     call |-> NoCall, cost |-> NoCost, usage |-> <<>>, resp |-> NoBillingResp]

\* variant of MissingProviders that takes every provider
EveryProvider(rows) == Providers

\* the providers for which the query of initialize_pricing_models finds
\* no row
MissingProviders(rows) == Providers \ ProvidersOf(rows)

\* the rows added for the providers ps
RECURSIVE SeedRows(_)
SeedRows(ps) ==
    IF ps = {} THEN <<>>
    ELSE LET p == CHOOSE q \in ps : TRUE
         IN  <<PricingRow(p, DEFAULT_PRICING[p])>> \o SeedRows(ps \ {p})

\* initialize_pricing_models up to its commit: a query per provider and
\* a new row for each one that is missing
SeedQuery(s) ==
    /\ billing.seed[s].pc = "idle"
    /\ billing.seed[s].runs < MaxSeedRuns
    /\ billing' = [billing EXCEPT !.seed[s].pc = "queried",
                                  !.seed[s].pending = MissingProviders(billing.rows)]
    /\ UNCHANGED <<raised, loops, decideIn, decideOut, applyIn, applyOut, sessions, inflight, asVars, ltVars>>

\* self.db.commit(): the new rows are inserted together; provider_name is
\* unique, so a row another caller has committed meanwhile makes the
\* commit raise and nothing is inserted
SeedCommit(s) ==
    /\ billing.seed[s].pc = "queried"
    /\ LET me == billing.seed[s]
           clash == me.pending \cap ProvidersOf(billing.rows) /= {}
       IN  billing' = [billing EXCEPT
                !.rows = IF clash THEN billing.rows ELSE billing.rows \o SeedRows(me.pending),
                !.seed[s] = [pc |-> "idle", pending |-> {}, runs |-> me.runs + 1,
                             raised |-> me.raised + (IF clash THEN 1 ELSE 0)]]
    /\ UNCHANGED <<raised, loops, decideIn, decideOut, applyIn, applyOut, sessions, inflight, asVars, ltVars>>

\* ---------------------------------------------------- calculate_cost
\* Quantities (cores, GB, hours) are held in tenths, money in
\* ten-thousandths of a dollar, the unit round(x, 4) rounds to.
QuantityScale == 10
HoursPerMonth == 730    \* month_fraction = duration_hours / 730.0

\* the arguments calculate_cost is called with
CostCalls ==
    [cpu_cores : {5, 13, 40}, memory_gb : {3, 20}, storage_gb : {0, 7, 100},
     duration_hours : {1, 10, 25}, provider : Providers]

\* variant of pricing_rates that always takes the default table
pricing_rates_default(rows, provider) == DEFAULT_PRICING[provider]

\* get_pricing_model and the fallback: the rates of the provider's row,
\* or those of DEFAULT_PRICING when there is no row
pricing_rates(rows, provider) ==
    IF provider \in ProvidersOf(rows)
    THEN LET i == CHOOSE j \in 1..Len(rows) : rows[j].provider_name = provider
         IN  [cpu_per_hour |-> rows[i].cpu_per_hour, memory_per_gb_hour |-> rows[i].memory_per_gb_hour,
              storage_per_gb_month |-> rows[i].storage_per_gb_month]
    ELSE DEFAULT_PRICING[provider]

\* round(n / d, 4) in ten-thousandths: the nearest whole number; a value
\* halfway between two of them is not exact as a float and can go to
\* either
round4(n, d) ==
    LET q == n \div d
        r == n % d
    IN  IF 2 * r < d THEN {q} ELSE IF 2 * r > d THEN {q + 1} ELSE {q, q + 1}

\* the three products of calculate_cost over their common denominator,
\* and the denominator
CostProducts(call, rates) ==
    [cpu |-> call.cpu_cores * call.duration_hours * rates.cpu_per_hour,
     memory |-> call.memory_gb * call.duration_hours * rates.memory_per_gb_hour,
     storage |-> call.storage_gb * call.duration_hours * rates.storage_per_gb_month]

\* calculate_cost: the breakdowns it can return
calculate_cost(rows, call) ==
    LET x == CostProducts(call, pricing_rates(rows, call.provider))
        d == QuantityScale * QuantityScale
    IN  {[cpu_cost |-> c, memory_cost |-> m, storage_cost |-> st, total_cost |-> t,
          provider |-> call.provider] :
            c \in round4(x.cpu, d), m \in round4(x.memory, d),
            st \in round4(x.storage, d * HoursPerMonth),
            t \in round4((x.cpu + x.memory) * HoursPerMonth + x.storage, d * HoursPerMonth)}

\* one call of calculate_cost
CalculateCost ==
    /\ billing.cost = NoCost
    /\ \E out \in calculate_cost(billing.rows, billing.call) : billing' = [billing EXCEPT !.cost = out]
    /\ UNCHANGED <<raised, loops, decideIn, decideOut, applyIn, applyOut, sessions, inflight, asVars, ltVars>>

\* ------------------------------------------------ real-time billing
BillingNow == 120       \* end_time = datetime.now(), in minutes
MinutesPerTenth == 6    \* timedelta(hours=hours_back), hours_back in tenths

\* two samples of container 1 the billing loop has saved
UsageSamples ==
    <<[container_id |-> 1, timestamp |-> 30, cpu_cores_used |-> 10, memory_gb |-> 10, storage_gb |-> 7],
      [container_id |-> 1, timestamp |-> 90, cpu_cores_used |-> 20, memory_gb |-> 30, storage_gb |-> 100]>>

\* the tables of resource_usage a request can find
UsageTables == {<<>>, <<UsageSamples[1]>>, <<UsageSamples[2]>>, UsageSamples}

\* hours_back offered to the request, in tenths of an hour
HoursBackInputs == {10, 20}

\* get_usage_history: the samples of the container in the window, in
\* timestamp order
get_usage_history(usage, container_id, start_time, end_time) ==
    SelectSeq(usage, LAMBDA u : /\ u.container_id = container_id
                                /\ u.timestamp >= start_time
                                /\ u.timestamp <= end_time)

\* BillingService.calculate_real_time_billing: the error payload when the
\* window holds no sample, else the costs of the average usage
calculate_real_time_billing(b, container_id, hours_back, provider) ==
    LET records == get_usage_history(b.usage, container_id,
                                     BillingNow - hours_back * MinutesPerTenth, BillingNow)
        n == Len(records)
    IN  IF n = 0
        THEN {[error |-> TRUE, samples |-> 0, costs |-> NoCost]}
        ELSE {[error |-> FALSE, samples |-> n, costs |-> k] :
                k \in calculate_cost(b.rows,
                        [cpu_cores |-> Sum([i \in 1..n |-> records[i].cpu_cores_used]) \div n,
                         memory_gb |-> Sum([i \in 1..n |-> records[i].memory_gb]) \div n,
                         storage_gb |-> records[n].storage_gb,
                         duration_hours |-> hours_back, provider |-> provider])}

\* the status the route answers when HTTPException(code) is raised inside
\* its try block: "except Exception" catches it and raises a 500
RaisedInsideTry(code) == 500

\* POST /billing/real-time/calculate
RealTimeBilling(u, c, hours_back, provider) ==
    /\ billing.resp = NoBillingResp
    /\ IF ~(c \in DOMAIN containers /\ containers[c].user_id = u)
       THEN billing' = [billing EXCEPT !.resp = [code |-> 404, samples |-> 0, costs |-> NoCost]]
       ELSE \E data \in calculate_real_time_billing(billing, c, hours_back, provider) :
                billing' = [billing EXCEPT !.resp =
                    [code |-> IF data.error THEN RaisedInsideTry(400) ELSE 200,
                     samples |-> data.samples, costs |-> data.costs]]
    /\ UNCHANGED <<raised, loops, decideIn, decideOut, applyIn, applyOut, sessions, inflight, asVars, ltVars>>

\* ================================================== specifications
InitStore ==
    /\ containers = <<>>
    /\ policies = <<>>
    /\ events = <<>>
    /\ nextCid = 1
    /\ nextPid = 1
    /\ now = 0
    /\ lastOp = Resp("init", 0)
    /\ evalLog = <<>>

InitLoadTest ==
    /\ test = NoTest
    /\ committed = NoTest
    /\ results = ZeroResults
    /\ tnow = 0
    /\ main = IdleTask
    /\ reqs = [i \in 1..(MaxRequests + 1) |-> NewRequest]
    /\ sampler = IdleSampler
    /\ metricRows = <<>>
    /\ ltResp = <<>>

InitServices == raised = NoFault /\ loops = StartedLoops /\ billing = NewBilling(<<>>)

\* the input the variables of a method applied alone rest on elsewhere
IdleApply == [db |-> Store(<<ParentRow("running")>>, <<CHOOSE q \in ApplyPolicies(1) : TRUE>>, <<>>, 2),
              pid |-> 1, metrics |-> HighSample, t |-> 0]

InitApply ==
    /\ applyIn = IdleApply
    /\ applyOut = NotApplied(IdleApply)
    /\ sessions = NoSessions(IdleApply)
    /\ inflight = NoRequests
    /\ InitServices

InitDecide ==
    /\ decideIn = CHOOSE i \in DecideInputs : TRUE
    /\ decideOut = NotDecided
    /\ InitApply

Init == InitStore /\ InitLoadTest /\ InitDecide

\* the requests of the store and the evaluation passes
NextStore ==
    \/ \E u \in Owners, n \in NameInputs, p \in PortInputs :
          DeployContainer(u, n, p, "simulated", "ok")
    \/ \E u \in Owners, n \in NameInputs, p \in PortInputs, d \in DockerAnswers :
          DeployContainer(u, n, p, "dockerhub", d)
    \/ \E u \in Users, c \in 1..MaxContainers : StartContainer(u, c)
    \/ \E u \in Users, c \in 1..MaxContainers : StopContainer(u, c)
    \/ \E u \in Users, c \in 1..MaxContainers : DeleteContainer(u, c)
    \/ \E u \in Owners, c \in 1..MaxContainers, b \in PolicyInputs : CreatePolicy(u, c, b)
    \/ \E u \in Owners, p \in 1..MaxPolicies, kv \in UpdateInputs : UpdatePolicy(u, p, kv)
    \/ \E u \in Owners, p \in 1..MaxPolicies : TogglePolicy(u, p)
    \/ \E u \in Owners, p \in 1..MaxPolicies : DeletePolicy(u, p)
    \/ BackgroundTick
    \/ \E u \in Owners : EvaluateNow(u)

Spec == Init /\ [][NextStore]_vars

\* the service driven directly: the requests of a container's owner, the
\* evaluation passes and direct calls of scale_up
NextService ==
    \/ \E u \in Owners, n \in {<<"web">>}, p \in PortInputs :
          DeployContainer(u, n, p, "simulated", "ok")
    \/ \E u \in Owners, c \in 1..MaxContainers : StartContainer(u, c)
    \/ \E u \in Owners, c \in 1..MaxContainers : StopContainer(u, c)
    \/ \E u \in Owners, c \in 1..MaxContainers : DeleteContainer(u, c)
    \/ \E u \in Owners, c \in 1..MaxContainers, b \in PolicyInputs : CreatePolicy(u, c, b)
    \/ \E u \in Owners, p \in 1..MaxPolicies, kv \in UpdateInputs : UpdatePolicy(u, p, kv)
    \/ \E u \in Owners, p \in 1..MaxPolicies : TogglePolicy(u, p)
    \/ \E u \in Owners, p \in 1..MaxPolicies : DeletePolicy(u, p)
    \/ BackgroundTick
    \/ \E u \in Owners : EvaluateNow(u)
    \/ \E p \in 1..MaxPolicies, trigger \in {"cpu", "memory"} :
          ScaleUpCall(p, trigger, HighSample)

SpecService == Init /\ [][NextService]_vars

\* should_scale_up applied once to each input
InitDecideInputs ==
    /\ InitStore
    /\ InitLoadTest
    /\ decideIn \in DecideInputs
    /\ decideOut = NotDecided
    /\ InitApply

SpecDecide == InitDecideInputs /\ [][Decide]_vars

\* a service method applied once to each store of ApplyInputs
InitApplyInputs ==
    /\ InitStore
    /\ InitLoadTest
    /\ decideIn = CHOOSE i \in DecideInputs : TRUE
    /\ decideOut = NotDecided
    /\ applyIn \in ApplyInputs
    /\ applyOut = NotApplied(applyIn)
    /\ sessions = NoSessions(applyIn)
    /\ inflight = NoRequests
    /\ InitServices

NextApply ==
    \/ ApplyEvaluate
    \/ \E fault \in ScaleFaults : ApplyScaleDown(fault)
    \/ \E fault \in ScaleFaults : ApplyScaleUp(fault)
    \/ ApplyToggle

SpecApply == InitApplyInputs /\ [][NextApply]_vars

\* ports a deploy request may carry when it names one
ExplicitPortInputs == {Null, StartPort, StartPort + 1}

\* deployments with and without an explicit port, by either user, and
\* the requests on the containers they leave
NextPorts ==
    \/ \E u \in Users, n \in NameInputs, p \in ExplicitPortInputs :
          DeployContainer(u, n, p, "simulated", "ok")
    \/ \E u \in Users, c \in 1..MaxContainers : StartContainer(u, c)
    \/ \E u \in Users, c \in 1..MaxContainers : StopContainer(u, c)
    \/ \E u \in Users, c \in 1..MaxContainers : DeleteContainer(u, c)

SpecPorts == Init /\ [][NextPorts]_vars

\* create and delete requests for policies running at once
NextPolicyRace ==
    \/ \E u \in Users, n \in NameInputs, p \in PortInputs :
          DeployContainer(u, n, p, "simulated", "ok")
    \/ \E r \in RequestIds, u \in Users, c \in 1..MaxContainers, b \in PolicyInputs :
          CreatePolicyCheck(r, u, c, b)
    \/ \E r \in RequestIds : CreatePolicyCommit(r)
    \/ \E u \in Users, p \in 1..MaxRacePolicies : DeletePolicy(u, p)

SpecPolicyRace == Init /\ [][NextPolicyRace]_vars

\* the users that own nothing and only call evaluate-now
Outsiders == Users \ Owners

\* two tenants: the requests of the owner of the containers and policies,
\* the background tick, direct calls of scale_up, and evaluate-now called
\* by a user who owns none of them
NextTenants ==
    \/ \E u \in Owners, n \in {<<"web">>}, p \in PortInputs :
          DeployContainer(u, n, p, "simulated", "ok")
    \/ \E u \in Owners, c \in 1..MaxContainers : StartContainer(u, c)
    \/ \E u \in Owners, c \in 1..MaxContainers : StopContainer(u, c)
    \/ \E u \in Owners, c \in 1..MaxContainers, b \in PolicyInputs : CreatePolicy(u, c, b)
    \/ BackgroundTick
    \/ \E p \in 1..MaxPolicies, trigger \in {"cpu", "memory"} :
          ScaleUpCall(p, trigger, HighSample)
    \/ \E u \in Outsiders : EvaluateNow(u)

SpecTenants == Init /\ [][NextTenants]_vars

\* the tick and a manual pass running at once over each store of RaceInputs
InitRaceInputs ==
    /\ InitStore
    /\ InitLoadTest
    /\ decideIn = CHOOSE i \in DecideInputs : TRUE
    /\ decideOut = NotDecided
    /\ applyIn \in RaceInputs
    /\ applyOut = NotApplied(applyIn)
    /\ sessions = NoSessions(applyIn)
    /\ inflight = NoRequests
    /\ InitServices

NextRace ==
    \/ \E s \in SessionIds : SessionLoad(s)
    \/ \E s \in SessionIds : SessionObserve(s)
    \/ \E s \in SessionIds : SessionSelect(s)
    \/ \E s \in SessionIds : SessionCommit(s)

SpecRace == InitRaceInputs /\ [][NextRace]_vars

\* the owner deploys and creates policies; every request that changes a
\* container or a policy is sent by a user who does not own it (user 2, a
\* teacher); the tick lets time pass
NextStrangers ==
    \/ \E u \in Owners, n \in NameInputs, p \in PortInputs :
          DeployContainer(u, n, p, "simulated", "ok")
    \/ \E u \in Owners, c \in 1..MaxContainers, b \in PolicyInputs : CreatePolicy(u, c, b)
    \/ \E u \in Outsiders, c \in 1..MaxContainers : StartContainer(u, c)
    \/ \E u \in Outsiders, c \in 1..MaxContainers : StopContainer(u, c)
    \/ \E u \in Outsiders, c \in 1..MaxContainers : DeleteContainer(u, c)
    \/ \E u \in Outsiders, p \in 1..MaxPolicies, kv \in UpdateInputs : UpdatePolicy(u, p, kv)
    \/ \E u \in Outsiders, p \in 1..MaxPolicies : TogglePolicy(u, p)
    \/ \E u \in Outsiders, p \in 1..MaxPolicies : DeletePolicy(u, p)
    \/ BackgroundTick

SpecStrangers == Init /\ [][NextStrangers]_vars

\* one pass applied once to each store of PassInputs
InitPassInputs ==
    /\ InitStore
    /\ InitLoadTest
    /\ decideIn = CHOOSE i \in DecideInputs : TRUE
    /\ decideOut = NotDecided
    /\ applyIn \in PassInputs
    /\ applyOut = NotApplied(applyIn)
    /\ sessions = NoSessions(applyIn)
    /\ inflight = NoRequests
    /\ InitServices

SpecPass == InitPassInputs /\ [][ApplyPass]_vars

NextLoadTest ==
    \/ \E n \in 1..MaxRequests, c \in 1..MaxConcurrency, d \in DurationInputs, sim \in BOOLEAN :
          StartLoadTest(n, c, d, sim)
    \/ ExecuteStart
    \/ MainWake
    \/ MainFinish
    \/ \E i \in 1..(MaxRequests + 1) : ReqRun(i)
    \/ \E i \in 1..(MaxRequests + 1) : ReqFinish(i)
    \/ SamplerRun
    \/ SamplerStats
    \/ SamplerCancelled
    \/ CancelRequest
    \/ LtTick

SpecLT == Init /\ [][NextLoadTest]_vars

\* the load-test engine with a cancellation that reaches the task
NextCancel ==
    \/ \E n \in 1..MaxRequests, c \in 1..MaxConcurrency, d \in DurationInputs, sim \in BOOLEAN :
          StartLoadTest(n, c, d, sim)
    \/ ExecuteStart
    \/ MainWake
    \/ MainFinish
    \/ \E i \in 1..(MaxRequests + 1) : ReqRun(i)
    \/ \E i \in 1..(MaxRequests + 1) : ReqFinish(i)
    \/ SamplerRun
    \/ SamplerStats
    \/ SamplerCancelled
    \/ CancelTask
    \/ LtTick

SpecCancel == Init /\ [][NextCancel]_vars

\* the load-test engine with statements of its store session that fail
NextFaults ==
    \/ \E n \in 1..MaxRequests, c \in 1..MaxConcurrency, d \in DurationInputs, sim \in BOOLEAN :
          StartLoadTest(n, c, d, sim)
    \/ ExecuteStart
    \/ MainWake
    \/ MainFinish
    \/ MainRaise
    \/ \E i \in 1..(MaxRequests + 1) : ReqRun(i)
    \/ \E i \in 1..(MaxRequests + 1) : ReqFinish(i)
    \/ SamplerRun
    \/ SamplerStats
    \/ SamplerCancelled
    \/ \E at \in FaultPoints : SamplerFault(at)
    \/ \E at \in FaultPoints : FinalStatsFault(at)
    \/ LtTick

SpecFaults == Init /\ [][NextFaults]_vars

\* the two background loops
NextLoops ==
    \/ \E l \in LoopNames : LoopWake(l)
    \/ \E l \in LoopNames : \E outcome \in TickOutcomes(l) : LoopTick(l, outcome)
    \/ LoopClock

SpecLoops == Init /\ [][NextLoops]_vars

\* seeding the pricing models, from every table it can find
InitSeedInputs ==
    /\ InitStore
    /\ InitLoadTest
    /\ decideIn = CHOOSE i \in DecideInputs : TRUE
    /\ decideOut = NotDecided
    /\ applyIn = IdleApply
    /\ applyOut = NotApplied(IdleApply)
    /\ sessions = NoSessions(IdleApply)
    /\ inflight = NoRequests
    /\ raised = NoFault
    /\ loops = StartedLoops
    /\ billing \in {NewBilling(rows) : rows \in PricingTables}

NextSeed ==
    \/ \E s \in SeedCallers : SeedQuery(s)
    \/ \E s \in SeedCallers : SeedCommit(s)

SpecSeed == InitSeedInputs /\ [][NextSeed]_vars

\* calculate_cost applied once to each call, on each table of rates
InitCostInputs ==
    /\ InitStore
    /\ InitLoadTest
    /\ decideIn = CHOOSE i \in DecideInputs : TRUE
    /\ decideOut = NotDecided
    /\ applyIn = IdleApply
    /\ applyOut = NotApplied(IdleApply)
    /\ sessions = NoSessions(IdleApply)
    /\ inflight = NoRequests
    /\ raised = NoFault
    /\ loops = StartedLoops
    /\ billing \in {[NewBilling(rows) EXCEPT !.call = c] : rows \in PricingTables, c \in CostCalls}

SpecCost == InitCostInputs /\ [][CalculateCost]_vars

\* one real-time billing request on a store with one container of user 1
InitRealTimeInputs ==
    /\ containers = <<ParentRow("running")>>
    /\ policies = <<>>
    /\ events = <<>>
    /\ nextCid = 2
    /\ nextPid = 1
    /\ now = 0
    /\ lastOp = Resp("init", 0)
    /\ evalLog = <<>>
    /\ InitLoadTest
    /\ decideIn = CHOOSE i \in DecideInputs : TRUE
    /\ decideOut = NotDecided
    /\ applyIn = IdleApply
    /\ applyOut = NotApplied(IdleApply)
    /\ sessions = NoSessions(IdleApply)
    /\ inflight = NoRequests
    /\ raised = NoFault
    /\ loops = StartedLoops
    /\ billing \in {[NewBilling(rows) EXCEPT !.usage = us] : rows \in PricingTables, us \in UsageTables}

NextRealTime ==
    \E u \in Users, c \in 1..MaxContainers, h \in HoursBackInputs, p \in Providers :
        RealTimeBilling(u, c, h, p)

SpecRealTime == InitRealTimeInputs /\ [][NextRealTime]_vars

\* the owner's requests, the background pass and scale_up, with the event
\* time taken from the database clock
NextClocks ==
    \/ \E u \in Owners, n \in {<<"web">>}, p \in PortInputs :
          DeployContainer(u, n, p, "simulated", "ok")
    \/ \E u \in Owners, c \in 1..MaxContainers : StartContainer(u, c)
    \/ \E u \in Owners, c \in 1..MaxContainers, b \in PolicyInputs : CreatePolicy(u, c, b)
    \/ \E u \in Owners, p \in 1..MaxPolicies, kv \in UpdateInputs : UpdatePolicy(u, p, kv)
    \/ \E u \in Owners, p \in 1..MaxPolicies : TogglePolicy(u, p)
    \/ \E lag \in StampLags : ClockedTick(lag)
    \/ \E p \in 1..MaxPolicies, trigger \in {"cpu", "memory"}, lag \in StampLags :
          ClockedScaleUpCall(p, trigger, HighSample, lag)

SpecClocks == Init /\ [][NextClocks]_vars

\* the event loop runs a task that can run and lets time pass
FairSpecLoops == SpecLoops /\ WF_vars(NextLoops)

\* the event loop runs every task that can run and lets time pass
FairSpecLT == SpecLT /\ WF_vars(NextLoadTest)

\* ================================================== properties
\* the operations that run one evaluation pass
PassOps == {"tick", "evaluate_now"}

\* the positions of the events the step just taken appended
NewEvents == (Len(events) + 1)..Len(events')

ReplicasWithinBounds ==
    lastOp.op \in PassOps =>
        \A p \in DOMAIN policies :
            (policies[p].enabled /\ policies[p].min_replicas <= policies[p].max_replicas) =>
                LET n == get_current_replica_count(containers, policies[p].container_id)
                IN  policies[p].min_replicas <= n /\ n <= policies[p].max_replicas

\* the counters of a load-test row are ordered
CountersOrdered(t) ==
    /\ t.requests_completed + t.requests_failed <= t.requests_sent
    /\ t.requests_sent <= t.total_requests

\* C4: in every state, for the load test as the engine holds it and as it
\* is committed, requests_completed + requests_failed <= requests_sent
\* <= total_requests.
RequestAccounting == CountersOrdered(test) /\ CountersOrdered(committed)

\* a test with a completed and a failed request counted and all sent
RequestAccountingWitness ==
    /\ committed.requests_completed >= 1
    /\ committed.requests_failed >= 1
    /\ test.requests_sent = test.total_requests

CancelTakesEffect ==
    \A i \in 1..Len(ltResp) :
        ltResp[i].code = 200 =>
            /\ test.status /= "completed"
            /\ main.request_count = ltResp[i].dispatched

\* the requests created by the dispatcher that have not finished
Unfinished == {i \in DOMAIN reqs : reqs[i].state \in {"ready", "waiting", "flight"}}

\* C7: the active counter stays within 0..concurrency and the requests
\* created but not finished never exceed total_requests.
ActiveWithinConcurrency ==
    /\ 0 <= results.active
    /\ results.active <= test.concurrency
    /\ Cardinality(Unfinished) <= test.total_requests
    /\ main.request_count <= test.total_requests

\* every slot is taken and a created request waits for one
ActiveWitness ==
    /\ test.status = "running"
    /\ results.active = test.concurrency
    /\ \E i \in DOMAIN reqs : reqs[i].state = "waiting"

\* C8: no request is started duration_seconds or more after the test began.
NoStartAfterDuration ==
    \A i \in DOMAIN reqs :
        reqs[i].started /= NoTime =>
            reqs[i].started - main.start_time < test.duration_seconds * TicksPerSecond

\* C9: a running test is never older than duration_seconds plus the 2 s
\* drain plus a margin of one request timeout.
TerminalWithinDeadline ==
    test.status = "running" =>
        tnow - test.started_at <= test.duration_seconds * TicksPerSecond + DrainWait + RequestTimeout

\* the decision and trigger the rule of C10 gives for an input
ExpectedScaleUp(in) ==
    LET p == in.policy
        cpu == in.metrics["cpu_percent"] >= p.scale_up_cpu_threshold
        mem == in.metrics["memory_percent"] >= p.scale_up_memory_threshold
        elapsed == p.last_scaled_at = NoTime \/ in.t - p.last_scaled_at >= p.cooldown_period
    IN  [decision |-> p.enabled /\ in.current_replicas < p.max_replicas /\ elapsed /\ (cpu \/ mem),
         trigger |-> IF cpu THEN "cpu" ELSE "memory"]

\* C10: should_scale_up decides true exactly when the policy is enabled,
\* replicas < max_replicas, the cooldown has elapsed and a scale-up
\* threshold is met; the trigger is cpu when the cpu threshold is met and
\* memory otherwise.
ScaleUpDecision ==
    decideOut /= NotDecided =>
        /\ decideOut[1] = ExpectedScaleUp(decideIn).decision
        /\ decideOut[1] => decideOut[2] = ExpectedScaleUp(decideIn).trigger

\* both thresholds are met after an elapsed cooldown and cpu is reported
ScaleUpDecisionWitness ==
    /\ decideOut = <<TRUE, "cpu">>
    /\ decideIn.policy.last_scaled_at /= NoTime
    /\ decideIn.metrics["memory_percent"] >= decideIn.policy.scale_up_memory_threshold

\* the policy, container and replica count an applied method started from
ApplyPolicy == applyIn.db.policies[applyIn.pid]

ApplyCount == get_current_replica_count(applyIn.db.containers, ApplyPolicy.container_id)

ApplyDecideInput ==
    [policy |-> ApplyPolicy, metrics |-> applyIn.metrics, current_replicas |-> ApplyCount, t |-> applyIn.t]

\* the scale-down rule of C11 for the input of the applied evaluation
ExpectedScaleDown ==
    LET p == ApplyPolicy
        elapsed == p.last_scaled_at = NoTime \/ applyIn.t - p.last_scaled_at >= p.cooldown_period
    IN  /\ ~ExpectedScaleUp(ApplyDecideInput).decision
        /\ p.enabled
        /\ ApplyCount > p.min_replicas
        /\ elapsed
        /\ applyIn.metrics["cpu_percent"] < p.scale_down_cpu_threshold
        /\ applyIn.metrics["memory_percent"] < p.scale_down_memory_threshold

ScaleUpApplied ==
    lastOp.op \in PassOps =>
        \A p \in DOMAIN evalLog \cap DOMAIN policies :
            evalLog[p].decision = "scale_up" =>
                /\ \E i \in 1..Len(events) :
                        /\ events[i].policy_id = p
                        /\ events[i].action = "scale_up"
                        /\ events[i].created_at = now
                /\ policies[p].last_scaled_at = now
                /\ \E c \in DOMAIN containers :
                        /\ containers[c].parent_id = policies[p].container_id
                        /\ containers[c].status = "pending"
                        /\ containers[c].created_at = now
                        /\ containers[c].image = containers[policies[p].container_id].image
                        /\ containers[c].user_id = containers[policies[p].container_id].user_id

ApplyRunningReplicas ==
    {c \in DOMAIN applyIn.db.containers :
        /\ applyIn.db.containers[c].parent_id = ApplyPolicy.container_id
        /\ applyIn.db.containers[c].status = "running"}

\* the containers whose row differs after the applied call
ApplyChanged ==
    {c \in DOMAIN applyIn.db.containers \cap DOMAIN applyOut.db.containers :
        applyOut.db.containers[c] /= applyIn.db.containers[c]}

ReplicaChanged == applyOut.db.containers /= applyIn.db.containers

EventRecorded == Len(applyOut.db.events) = Len(applyIn.db.events) + 1

Stamped == applyOut.db.policies[applyIn.pid].last_scaled_at = applyIn.t

EvaluateNowOwnPoliciesOnly ==
    [][lastOp'.op = "evaluate_now" =>
        /\ \A p \in DOMAIN evalLog' : policies'[p].user_id \in Outsiders
        /\ \A p \in DOMAIN policies :
                policies[p].user_id \notin Outsiders =>
                    /\ p \in DOMAIN policies' /\ policies'[p].last_scaled_at = policies[p].last_scaled_at
                    /\ \A i \in (Len(events) + 1)..Len(events') : events'[i].policy_id /= p
        /\ \A c \in DOMAIN containers' :
                containers'[c].user_id \notin Outsiders =>
                    c \in DOMAIN containers /\ containers'[c] = containers[c]]_vars

\* the effects alone: evaluate-now called by an outsider leaves the rows
\* of the other users as they were
EvaluateNowNoForeignEffect ==
    [][lastOp'.op = "evaluate_now" =>
        (containers' = containers /\ policies' = policies /\ events' = events)]_vars

ApplyPinned ==
    /\ applyOut.op = "evaluate"
    /\ ApplyPolicy.min_replicas = 1
    /\ ApplyPolicy.max_replicas = 1

PortsUnique ==
    \A c, d \in DOMAIN containers :
        (c /= d /\ containers[c].port /= Null) => containers[c].port /= containers[d].port

\* no two containers of one owner share a name in the table cs
NamesUnique(cs) ==
    \A c, d \in DOMAIN cs :
        (c /= d /\ cs[c].user_id = cs[d].user_id) => cs[c].name /= cs[d].name

NamesUniquePerOwner == NamesUnique(containers)

\* C23: after any interleaving of policy create and delete requests at
\* most one scaling policy exists per container.
OnePolicyPerContainer ==
    \A p, q \in DOMAIN policies :
        p /= q => policies[p].container_id /= policies[q].container_id

\* the requests that change a container or a policy
ChangeOps == {"start", "stop", "delete", "update_policy", "toggle_policy", "delete_policy"}

\* C24: a request that changes a container or a policy is applied only
\* when the caller owns it: sent by another user, teacher or not, it
\* leaves containers, policies and events as they were.  Every such
\* request of SpecStrangers is sent by a user who owns nothing.
OnlyOwnerChanges ==
    [][lastOp'.op \in ChangeOps =>
        (containers' = containers /\ policies' = policies /\ events' = events)]_vars

\* the policy requests alone
OnlyOwnerChangesPolicy ==
    [][lastOp'.op \in {"update_policy", "toggle_policy", "delete_policy"} =>
        (lastOp'.code = 404 /\ policies' = policies /\ events' = events)]_vars

\* C25: every stored scaling policy satisfies
\* 1 <= min_replicas <= max_replicas <= 8 and cooldown_period >= 60.
PolicyBoundsHold ==
    \A p \in DOMAIN policies :
        /\ 1 <= policies[p].min_replicas
        /\ policies[p].min_replicas <= policies[p].max_replicas
        /\ policies[p].max_replicas <= MaxReplicasLimit
        /\ policies[p].cooldown_period >= MinCooldown

\* C26: a single toggle changes only enabled: every other field of the
\* policy and every other row are as before; a second toggle returns the
\* store to its original state.
ToggleTwiceIsIdentity ==
    /\ applyOut.op = "toggle" =>
            /\ applyOut.db.policies[applyIn.pid].enabled = ~ApplyPolicy.enabled
            /\ [applyOut.db.policies[applyIn.pid] EXCEPT !.enabled = ApplyPolicy.enabled] = ApplyPolicy
            /\ applyOut.db.containers = applyIn.db.containers
            /\ applyOut.db.events = applyIn.db.events
    /\ applyOut.op = "toggle_twice" => applyOut.db = applyIn.db

\* a disabled policy that has scaled before, toggled twice
ToggleTwiceWitness ==
    /\ applyOut.op = "toggle_twice"
    /\ ~ApplyPolicy.enabled
    /\ ApplyPolicy.last_scaled_at /= NoTime
    /\ applyOut.db.policies[applyIn.pid] = ApplyPolicy

\* C27: DELETE /loadtest/{id} on a test whose status is not running is
\* answered 400 and changes nothing: the row (status, counters, aggregates,
\* timestamps), the metric rows and every task are as before.
CancelNotRunningRejected ==
    [][(Len(ltResp') > Len(ltResp) /\ committed.status /= "running") =>
            /\ ltResp'[Len(ltResp')].code = 400
            /\ UNCHANGED <<test, committed, results, main, reqs, sampler, metricRows>>]_vars

\* a completed test with counted requests was asked to cancel
CancelNotRunningWitness ==
    /\ Len(ltResp) = 1
    /\ ltResp[1].code = 400
    /\ committed.status = "completed"
    /\ committed.completed_at < ltResp[1].at
    /\ committed.requests_completed > 0

\* C28: when the task of a running load test is cancelled, the test ends
\* with status cancelled and completed_at set, and the persisted
\* requests_completed, requests_failed and latency aggregates are computed
\* from the requests finished at the moment of cancellation.
CancelledStatsPersisted ==
    (main.pc = "done" /\ Len(ltResp) = 1 /\ ltResp[1].code = 0) =>
        /\ committed.status = "cancelled"
        /\ committed.completed_at /= NoTime
        /\ committed.requests_completed >= ltResp[1].completed
        /\ committed.requests_failed >= ltResp[1].failed
        /\ ltResp[1].response_times /= <<>> => committed.avg_response_time_ms /= NoTime

\* C29: the drain loop never runs past its 2 s window; once the test has
\* reached a terminal status no request of the test is still in flight,
\* none is started, and the persisted row (requests_sent,
\* requests_completed, requests_failed, aggregates) never changes again.
AbandonedAfterDrain ==
    /\ [](main.pc = "drain" => main.wake <= main.wait_end + DrainPoll)
    /\ [](committed.status \in Terminal => \A i \in DOMAIN reqs : reqs[i].state /= "flight")
    /\ [][committed.status \in Terminal =>
            /\ committed' = committed
            /\ \A i \in DOMAIN reqs : reqs'[i].state = "flight" => reqs[i].state = "flight"]_vars

\* the target answered every request that has started within one tick
FastTarget == \A i \in DOMAIN reqs : reqs[i].started /= NoTime => reqs[i].latency <= 1

\* every request the dispatcher created has run its first step
DispatchedAllStarted == \A i \in 1..main.request_count : reqs[i].started /= NoTime

\* C30: when the target answers every request well inside the drain
\* window, the completed test has requests_sent equal to the number of
\* dispatches and requests_completed + requests_failed = requests_sent.
AllDispatchedAccounted ==
    (committed.status = "completed" /\ FastTarget /\ DispatchedAllStarted) =>
        /\ committed.requests_sent = main.request_count
        /\ committed.requests_completed + committed.requests_failed = committed.requests_sent

\* C31: a request that fails (timeout, connection error, HTTP error
\* status) adds one to the failed count and leaves the status of the test
\* alone; an error of the dispatcher or of the sampler itself ends the
\* test with status failed, an error_message and completed_at set.
FailuresHandled ==
    /\ [][\A i \in DOMAIN reqs :
            (reqs[i].state = "flight" /\ reqs'[i].state = "done" /\ reqs[i].outcome /= "ok") =>
                /\ results'.failed = results.failed + 1
                /\ results'.completed = results.completed
                /\ test'.status = test.status
                /\ committed' = committed]_vars
    /\ []((main.pc = "done" /\ raised.task /= "none") =>
            /\ committed.status = "failed"
            /\ committed.error_message /= ""
            /\ committed.completed_at /= NoTime)

\* C32: each background loop keeps running: whatever way an iteration
\* ends, its error is logged, its store session is closed, and the next
\* iteration follows; a loop has at most one iteration, and one session,
\* under way.
LoopsKeepRunning ==
    /\ [](\A l \in LoopNames :
            /\ loops.task[l].pc \in {"sleep", "tick"}
            /\ loops.task[l].db = (IF loops.task[l].pc = "tick" THEN 1 ELSE 0))
    /\ [][\A l \in LoopNames :
            (loops.task[l].pc = "tick" /\ loops'.task[l].pc /= "tick") =>
                /\ loops'.task[l].pc = "sleep"
                /\ loops'.task[l].wake = loops.clock + LoopPeriod(l)
                /\ loops'.task[l].logged \in {loops.task[l].logged, loops.task[l].logged + 1}]_vars
    /\ \A l \in LoopNames : \A k \in 0..(MaxLoopTicks - 1) :
            (loops.task[l].ticks = k) ~> (loops.task[l].ticks = k + 1)

\* both loops have logged an error and gone on to a later iteration
LoopsKeepRunningWitness ==
    /\ loops.task["autoscaler"].logged >= 2
    /\ loops.task["billing"].logged = 1
    /\ loops.task["billing"].ticks >= 3
    /\ \A l \in LoopNames : loops.task[l].pc = "sleep" /\ loops.task[l].db = 0

\* C33: every pass gives every enabled policy whose container exists a
\* scaling decision from sampled metrics, whether the container is
\* simulated or has an engine handle.
EveryPolicyDecided ==
    lastOp.op \in PassOps =>
        \A p \in EnabledPolicies(policies) :
            policies[p].container_id \in DOMAIN containers =>
                /\ p \in DOMAIN evalLog
                /\ evalLog[p].reason /= "no_metrics"

Seeded == \E s \in SeedCallers : billing.seed[s].runs >= 1

\* C35: seeding the pricing models any number of times leaves exactly one
\* row per provider, never changes a row that existed, and changes
\* nothing once a run has ended.
SeedingIdempotent ==
    /\ [](/\ \A i, j \in 1..Len(billing.rows) :
                i /= j => billing.rows[i].provider_name /= billing.rows[j].provider_name
          /\ \A i \in 1..Len(billing.input) : billing.rows[i] = billing.input[i]
          /\ \A i \in (Len(billing.input) + 1)..Len(billing.rows) :
                billing.rows[i] = PricingRow(billing.rows[i].provider_name,
                                             DEFAULT_PRICING[billing.rows[i].provider_name])
          /\ Seeded => ProvidersOf(billing.rows) = Providers)
    /\ [][Seeded => billing'.rows = billing.rows]_vars

\* a table with one edited row, seeded by both callers at once, one of
\* them refused by the unique provider_name, and seeded again
SeedingWitness ==
    /\ Len(billing.input) = 1
    /\ billing.input[1].cpu_per_hour = EditedRates.cpu_per_hour
    /\ Len(billing.rows) = 3
    /\ \E s \in SeedCallers : billing.seed[s].raised = 1
    /\ \A s \in SeedCallers : billing.seed[s].runs = MaxSeedRuns

\* the rates the claim C36 names for a call: the provider's row, or the
\* default table when there is none
ClaimedRates ==
    IF \E i \in 1..Len(billing.rows) : billing.rows[i].provider_name = billing.call.provider
    THEN LET i == CHOOSE j \in 1..Len(billing.rows) : billing.rows[j].provider_name = billing.call.provider
         IN  billing.rows[i]
    ELSE DEFAULT_PRICING[billing.call.provider]

\* v is n / d rounded to a whole number of ten-thousandths
Rounded(v, n, d) == 2 * n - d <= 2 * v * d /\ 2 * v * d <= 2 * n + d

\* C36: for every call, cpu_cost = cpu_cores * h * rate_cpu, memory_cost =
\* memory_gb * h * rate_mem and storage_cost = storage_gb * (h / 730) *
\* rate_storage, each rounded to 4 decimals, and total_cost is within 1e-4
\* of the sum of the three products; the rates are the provider's row, or
\* the default table when the row is missing.
CostBreakdown ==
    billing.cost /= NoCost =>
        LET c == billing.call
            r == ClaimedRates
            q == QuantityScale * QuantityScale
            cpu == c.cpu_cores * c.duration_hours * r.cpu_per_hour
            mem == c.memory_gb * c.duration_hours * r.memory_per_gb_hour
            sto == c.storage_gb * c.duration_hours * r.storage_per_gb_month
            sum == (cpu + mem) * HoursPerMonth + sto
            den == q * HoursPerMonth
            t == billing.cost.total_cost
        IN  /\ Rounded(billing.cost.cpu_cost, cpu, q)
            /\ Rounded(billing.cost.memory_cost, mem, q)
            /\ Rounded(billing.cost.storage_cost, sto, den)
            /\ t * den - sum <= den /\ sum - t * den <= den
            /\ billing.cost.provider = c.provider

\* a call priced by an edited row, with a product that needs rounding and
\* storage that is prorated
CostBreakdownWitness ==
    /\ billing.cost /= NoCost
    /\ \E i \in 1..Len(billing.rows) :
            /\ billing.rows[i].provider_name = billing.call.provider
            /\ billing.rows[i].cpu_per_hour = EditedRates.cpu_per_hour
    /\ (billing.call.cpu_cores * billing.call.duration_hours * EditedRates.cpu_per_hour)
            % (QuantityScale * QuantityScale) /= 0
    /\ billing.cost.storage_cost > 0

\* C37: real-time billing of the caller's container over a window that
\* holds no sample is answered as a client error (400) without cost
\* figures.
NoSamplesIsClientError ==
    (billing.resp.code \notin {0, 404} /\ billing.resp.samples = 0) =>
        (billing.resp.code = 400 /\ billing.resp.costs = NoCost)

\* the scaling events of policy p, and the time of the latest of them
EventsOfPolicy(p) == {i \in DOMAIN events : events[i].policy_id = p}

LatestEventAt(p) == Max({events[i].created_at : i \in EventsOfPolicy(p)})

SamplerStoppedAtTerminal ==
    /\ [](committed.status \in Terminal => sampler.pc \in {"none", "done"})
    /\ [][committed.status \in Terminal => metricRows' = metricRows]_vars
    /\ [][/\ Len(metricRows') >= Len(metricRows)
          /\ \A i \in DOMAIN metricRows : metricRows'[i] = metricRows[i]]_vars
    /\ [](\A i, j \in DOMAIN metricRows :
            (i < j \/ metricRows[i].timestamp < metricRows[j].timestamp) =>
                /\ metricRows[i].timestamp <= metricRows[j].timestamp
                /\ metricRows[i].requests_completed <= metricRows[j].requests_completed
                /\ metricRows[i].requests_failed <= metricRows[j].requests_failed)

\* a finished test with snapshots whose counters grew, whose request tasks
\* still changed the counters after the last snapshot
SamplerStoppedWitness ==
    /\ committed.status \in Terminal
    /\ Len(metricRows) >= 2
    /\ metricRows[Len(metricRows)].requests_completed > metricRows[1].requests_completed
    /\ results.completed + results.failed >
           metricRows[Len(metricRows)].requests_completed + metricRows[Len(metricRows)].requests_failed

====
